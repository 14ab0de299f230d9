--------------------------- MODULE ProcessesProofs ---------------------------
(***************************************************************************)
(* What is proved of BlobIO, for any numbers of pages, requests and        *)
(* messages and whatever interferes: answers are read as they were         *)
(* written, each is told of once, and those of one page are heard.         *)
(*                                                                         *)
(* What is proved of DaemonLife, for any objects, timeouts and disorder:   *)
(* an object that may be disposed of has a check to come, the daemon       *)
(* counts down to its end only without objects, and what is busy stays.    *)
(***************************************************************************)
EXTENDS BlobIO, DaemonLife, SeqLemmas

-----------------------------------------------------------------------------
(* The inductive invariant of BlobIO *)

\* How many items a message has
Size(head) == IF head.what = "result" THEN 1 + head.pages ELSE MessageItems

\* s is a sequence of whole messages.
Whole(s) ==
  /\ s # <<>> => s[1].what \in Heads
  /\ \A i \in DOMAIN s : s[i].what \in Heads =>
       /\ s[i].what = "result" => s[i].pages > 0
       /\ i + Size(s[i]) <= Len(s) + 1
       /\ \A j \in i + 1 .. i + Size(s[i]) - 1 : s[j].what \notin Heads
       /\ i + Size(s[i]) <= Len(s) => s[i + Size(s[i])].what \in Heads

OfOnePage(s) == \A i \in DOMAIN s : s[i].pages <= 1

\* The handler is deaf only in the midst of an answer of several pages, and what a process
\* that has ended has written has been read.
Hearing ==
  /\ proxy.reading => proxy.listening
  /\ proxy.listening => proxy.missing = 0
  /\ proxy.listening /\ ~proxy.reading => arrived = <<>>
  /\ child = "ended" => ~proxy.reading /\ stdout = <<>>
  /\ Without({"big"}) => proxy.listening /\ OfOnePage(stdout) /\ OfOnePage(arrived)

\* Nothing is on the way to the session core.
Quiet == doing = 0 /\ stdout = <<>> /\ ~proxy.reading /\ ~proxy.processing

\* What is read are whole messages, and a request that has been told of lets no other pass.
InOrder ==
  /\ child # "stopping"
  /\ child = "ended" => Quiet
  /\ doing \in {0, request}
  /\ Whole(stdout)
  /\ proxy.reading => Whole(arrived)
  /\ proxy.processing => ~proxy.obtained /\ request > 0 /\ outcome[request] = <<>>
  /\ (request > 0 => outcome[request] # <<>>) /\ ~proxy.obtained => Quiet
  /\ request = 0 => ~proxy.obtained
  /\ \A r \in Request : r > request => outcome[r] = <<>>
  /\ ToldOnce

Answers(s) == {i \in DOMAIN s : s[i].what \in {"result", "error"}}

\* The one answer in s is that to the request at work, of which nothing has been told.
AnswersRequest(s) ==
  \A i \in Answers(s) :
    s[i].what \in sent[request] /\ outcome[request] = <<>> /\ \A j \in Answers(s) : j = i

\* A request has one answer, and when it has been told of there is no other to come.
AnsweredAlone ==
  /\ \A r \in Request : r > request => sent[r] = {}
  /\ request > 0 /\ outcome[request] # <<>> /\ doing # 0 => sent[request] # {}
  /\ AnswersRequest(stdout)
  /\ proxy.reading => AnswersRequest(arrived) /\ (Answers(stdout) = {} \/ Answers(arrived) = {})
  /\ ErrorsAreTrue

PipeIInv ==
  /\ PipeTypeOK
  /\ Hearing
  /\ Without({"torn"}) => InOrder
  /\ Without({"torn", "twice"}) => AnsweredAlone

-----------------------------------------------------------------------------
(* Sequences of messages *)

\* What is cut from a sequence in two pieces
LEMMA Cut ==
  ASSUME NEW S, NEW s \in Seq(S), NEW k \in 0 .. Len(s)
  PROVE  /\ SubSeq(s, 1, k) \in Seq(S) /\ SubSeq(s, k + 1, Len(s)) \in Seq(S)
         /\ DOMAIN s = 1 .. Len(s) /\ Len(s) \in Nat
         /\ Len(SubSeq(s, 1, k)) = k /\ DOMAIN SubSeq(s, 1, k) = 1 .. k
         /\ Len(SubSeq(s, k + 1, Len(s))) = Len(s) - k
         /\ DOMAIN SubSeq(s, k + 1, Len(s)) = 1 .. Len(s) - k
         /\ \A i \in 1 .. k : SubSeq(s, 1, k)[i] = s[i]
         /\ \A i \in 1 .. Len(s) - k : SubSeq(s, k + 1, Len(s))[i] = s[i + k]
<1>1. Len(s) \in Nat /\ s \in [1 .. Len(s) -> S] /\ DOMAIN s = 1 .. Len(s)
  BY LenProperties
<1> DEFINE t == SubSeq(s, 1, k)
           u == SubSeq(s, k + 1, Len(s))
<1>2. /\ t \in Seq(S) /\ Len(t) = k /\ \A i \in 1 .. k : t[i] = s[i]
  <2>1. \A i \in 1 .. k : s[i] \in S
    BY <1>1
  <2> QED
    BY <1>1, <2>1, SubSeqProperties
<1>3. /\ u \in Seq(S) /\ Len(u) = Len(s) - k /\ \A i \in 1 .. Len(s) - k : u[i] = s[i + k]
  <2>1. \A i \in k + 1 .. Len(s) : s[i] \in S
    BY <1>1
  <2>2. k + 1 \in 1 .. Len(s) + 1 /\ Len(s) \in k .. Len(s)
    BY <1>1
  <2>3. /\ u \in Seq(S)
        /\ Len(u) = IF k + 1 <= Len(s) THEN Len(s) - (k + 1) + 1 ELSE 0
        /\ \A i \in 1 .. Len(s) - (k + 1) + 1 : u[i] = s[k + 1 + i - 1]
    BY <1>1, <2>1, <2>2, SubSeqProperties
  <2>4. \A i \in 1 .. Len(s) - k : i \in 1 .. Len(s) - (k + 1) + 1 /\ k + 1 + i - 1 = i + k
    BY <2>2
  <2>5. (IF k + 1 <= Len(s) THEN Len(s) - (k + 1) + 1 ELSE 0) = Len(s) - k
    BY <2>2
  <2> HIDE DEF t, u
  <2> QED
    BY <2>3, <2>4, <2>5
<1> HIDE DEF t, u
<1>4. DOMAIN t = 1 .. k /\ DOMAIN u = 1 .. Len(s) - k
  BY <1>2, <1>3, LenProperties
<1> QED
  BY <1>1, <1>2, <1>3, <1>4 DEF t, u

\* Two sequences, one after the other
LEMMA Joined ==
  ASSUME NEW S, NEW s \in Seq(S), NEW t \in Seq(S)
  PROVE  /\ s \o t \in Seq(S)
         /\ Len(s) \in Nat /\ Len(t) \in Nat /\ Len(s \o t) = Len(s) + Len(t)
         /\ DOMAIN s = 1 .. Len(s) /\ DOMAIN t = 1 .. Len(t)
         /\ DOMAIN (s \o t) = 1 .. Len(s) + Len(t)
         /\ \A i \in 1 .. Len(s) : (s \o t)[i] = s[i]
         /\ \A i \in 1 .. Len(t) : (s \o t)[Len(s) + i] = t[i]
<1> DEFINE u == s \o t
<1>1. /\ Len(s) \in Nat /\ Len(t) \in Nat /\ DOMAIN s = 1 .. Len(s) /\ DOMAIN t = 1 .. Len(t)
  BY LenProperties
<1>2. /\ u \in Seq(S) /\ Len(u) = Len(s) + Len(t)
      /\ \A i \in 1 .. Len(s) + Len(t) : u[i] = IF i <= Len(s) THEN s[i] ELSE t[i - Len(s)]
  BY ConcatProperties
<1> HIDE DEF u
<1>3. DOMAIN u = 1 .. Len(s) + Len(t)
  BY <1>2, LenProperties
<1> QED
  BY <1>1, <1>2, <1>3 DEF u

LEMMA ItemFacts ==
  /\ MaxPages \in Nat \ {0} /\ MaxRequests \in Nat /\ MaxSends \in Nat
  /\ \A x \in Item : x.what \in Heads \cup {"page", "message"} /\ x.pages \in 0 .. MaxPages
  /\ \A x \in Item : Size(x) \in Nat /\ Size(x) > 0
BY BlobAssumption DEF Item, Size, MessageItems

\* Whole messages can be taken from the front,
LEMMA WholeCut ==
  ASSUME NEW s \in Seq(Item), Whole(s), NEW k \in 0 .. Len(s),
         k < Len(s) => s[k + 1].what \in Heads
  PROVE  Whole(SubSeq(s, 1, k)) /\ Whole(SubSeq(s, k + 1, Len(s)))
<1> DEFINE t == SubSeq(s, 1, k)
           u == SubSeq(s, k + 1, Len(s))
<1>1. /\ t \in Seq(Item) /\ u \in Seq(Item) /\ Len(s) \in Nat
      /\ DOMAIN s = 1 .. Len(s) /\ DOMAIN t = 1 .. k /\ DOMAIN u = 1 .. Len(s) - k
      /\ Len(t) = k /\ Len(u) = Len(s) - k
      /\ \A i \in 1 .. k : t[i] = s[i]
      /\ \A i \in 1 .. Len(s) - k : u[i] = s[i + k]
  BY Cut
<1> HIDE DEF t, u
<1>2. \A i \in 1 .. Len(s) : s[i] \in Item /\ Size(s[i]) \in Nat /\ Size(s[i]) > 0
  BY <1>1, ElementOfSeq, ItemFacts
<1>3. Whole(t)
  <2>1. t # <<>> => t[1].what \in Heads
    <3>1. t # <<>> => k > 0
      BY <1>1, EmptySeq
    <3> QED
      BY <1>1, <3>1, EmptySeq DEF Whole
  <2>2. ASSUME NEW i \in 1 .. k, t[i].what \in Heads
        PROVE  /\ t[i].what = "result" => t[i].pages > 0
               /\ i + Size(t[i]) <= k + 1
               /\ \A j \in i + 1 .. i + Size(t[i]) - 1 : t[j].what \notin Heads
               /\ i + Size(t[i]) <= k => t[i + Size(t[i])].what \in Heads
    <3> DEFINE n == Size(s[i])
    <3>1. n \in Nat /\ n > 0 /\ t[i] = s[i] /\ i \in DOMAIN s
      BY <1>1, <1>2
    <3> HIDE DEF n
    <3>2. /\ s[i].what = "result" => s[i].pages > 0
          /\ i + n <= Len(s) + 1
          /\ \A j \in i + 1 .. i + n - 1 : s[j].what \notin Heads
          /\ i + n <= Len(s) => s[i + n].what \in Heads
      BY <2>2, <3>1 DEF Whole, n
    <3>3. i + n <= k + 1
      <4> SUFFICES ASSUME i + n > k + 1 PROVE FALSE
        BY <1>1, <3>1
      <4>1. k + 1 \in i + 1 .. i + n - 1
        BY <1>1, <3>1
      <4>2. k < Len(s)
        BY <1>1, <3>1, <3>2
      <4> QED
        BY <3>2, <4>1, <4>2
    <3>4. \A j \in i + 1 .. i + n - 1 : t[j] = s[j]
      BY <1>1, <3>1, <3>3
    <3>5. i + n <= k => t[i + n] = s[i + n]
      BY <1>1, <3>1
    <3>6. Size(t[i]) = n
      BY <3>1 DEF n
    <3> QED
      BY <3>1, <3>2, <3>3, <3>4, <3>5, <3>6
  <2> QED
    BY <1>1, <2>1, <2>2 DEF Whole
<1>4. Whole(u)
  <2>1. u # <<>> => u[1].what \in Heads
    <3>1. u # <<>> => k < Len(s)
      BY <1>1, EmptySeq
    <3> QED
      BY <1>1, <3>1
  <2>2. ASSUME NEW i \in 1 .. Len(s) - k, u[i].what \in Heads
        PROVE  /\ u[i].what = "result" => u[i].pages > 0
               /\ i + Size(u[i]) <= Len(s) - k + 1
               /\ \A j \in i + 1 .. i + Size(u[i]) - 1 : u[j].what \notin Heads
               /\ i + Size(u[i]) <= Len(s) - k => u[i + Size(u[i])].what \in Heads
    <3> DEFINE n == Size(s[i + k])
    <3>1. n \in Nat /\ n > 0 /\ u[i] = s[i + k] /\ i + k \in DOMAIN s
      BY <1>1, <1>2
    <3> HIDE DEF n
    <3>2. /\ s[i + k].what = "result" => s[i + k].pages > 0
          /\ i + k + n <= Len(s) + 1
          /\ \A j \in i + k + 1 .. i + k + n - 1 : s[j].what \notin Heads
          /\ i + k + n <= Len(s) => s[i + k + n].what \in Heads
      BY <2>2, <3>1 DEF Whole, n
    <3>3. ASSUME NEW j \in i + 1 .. i + n - 1
          PROVE  u[j] = s[j + k] /\ j + k \in i + k + 1 .. i + k + n - 1
      <4>1. i + k + n <= Len(s) + 1
        BY <3>2
      <4>2. j \in 1 .. Len(s) - k
        BY <1>1, <3>1, <4>1
      <4>3. j + k \in i + k + 1 .. i + k + n - 1
        BY <1>1, <3>1
      <4> QED
        BY <1>1, <4>2, <4>3
    <3>5. i + n <= Len(s) - k => u[i + n] = s[i + k + n]
      <4>1. i + n <= Len(s) - k => u[i + n] = s[(i + n) + k]
        BY <1>1, <3>1
      <4>2. (i + n) + k = i + k + n
        BY <1>1, <3>1
      <4> QED
        BY <4>1, <4>2
    <3>4. i + n <= Len(s) - k + 1
      <4>1. i + k + n <= Len(s) + 1
        BY <3>2
      <4> QED
        BY <1>1, <3>1, <4>1
    <3>6. i + n <= Len(s) - k => u[i + n].what \in Heads
      <4>1. i + n <= Len(s) - k => i + k + n <= Len(s)
        BY <1>1, <3>1
      <4> QED
        BY <3>2, <3>5, <4>1
    <3>7. \A j \in i + 1 .. i + n - 1 : u[j].what \notin Heads
      BY <3>2, <3>3
    <3>8. n = Size(u[i])
      BY <3>1 DEF n
    <3> QED
      BY <3>1, <3>2, <3>4, <3>6, <3>7, <3>8
  <2> QED
    BY <1>1, <2>1, <2>2 DEF Whole
<1> QED
  BY <1>3, <1>4 DEF t, u

\* and put behind others.
LEMMA WholeJoined ==
  ASSUME NEW s \in Seq(Item), NEW t \in Seq(Item), Whole(s), Whole(t)
  PROVE  Whole(s \o t)
<1> DEFINE u == s \o t
           n(x) == Size(x)
<1>1. /\ u \in Seq(Item) /\ Len(s) \in Nat /\ Len(t) \in Nat /\ Len(u) = Len(s) + Len(t)
      /\ DOMAIN s = 1 .. Len(s) /\ DOMAIN t = 1 .. Len(t) /\ DOMAIN u = 1 .. Len(s) + Len(t)
      /\ \A i \in 1 .. Len(s) : u[i] = s[i]
      /\ \A i \in 1 .. Len(t) : u[Len(s) + i] = t[i]
  BY Joined
<1> HIDE DEF u
<1>2. \A i \in 1 .. Len(u) : Size(u[i]) \in Nat /\ Size(u[i]) > 0
  BY <1>1, ElementOfSeq, ItemFacts
<1>3. Len(t) > 0 => t[1].what \in Heads /\ u[Len(s) + 1] = t[1]
  <2>1. Len(t) > 0 => t # <<>>
    BY <1>1, EmptySeq
  <2> QED
    BY <1>1, <2>1 DEF Whole
<1>4. u # <<>> => u[1].what \in Heads
  <2>1. CASE Len(s) > 0
    <3>1. s # <<>>
      BY <2>1, EmptySeq
    <3> QED
      BY <1>1, <2>1, <3>1 DEF Whole
  <2>2. CASE Len(s) = 0
    <3>1. u # <<>> => Len(t) > 0
      BY <1>1, <2>2, EmptySeq
    <3> QED
      BY <1>1, <1>3, <2>2, <3>1
  <2> QED
    BY <1>1, <2>1, <2>2
<1>5. ASSUME NEW i \in 1 .. Len(u), u[i].what \in Heads
      PROVE  /\ u[i].what = "result" => u[i].pages > 0
             /\ i + Size(u[i]) <= Len(u) + 1
             /\ \A j \in i + 1 .. i + Size(u[i]) - 1 : u[j].what \notin Heads
             /\ i + Size(u[i]) <= Len(u) => u[i + Size(u[i])].what \in Heads
  <2> DEFINE k == Size(u[i])
  <2>0. k \in Nat /\ k > 0 /\ i \in Nat /\ Len(s) \in Nat
    BY <1>1, <1>2
  <2>1. CASE i <= Len(s)
    <3>1. u[i] = s[i] /\ i \in DOMAIN s
      BY <1>1, <2>1
    <3> HIDE DEF k
    <3>2. /\ s[i].what = "result" => s[i].pages > 0
          /\ i + k <= Len(s) + 1
          /\ \A j \in i + 1 .. i + k - 1 : s[j].what \notin Heads
          /\ i + k <= Len(s) => s[i + k].what \in Heads
      BY <1>5, <3>1 DEF Whole, k
    <3>3. \A j \in i + 1 .. i + k - 1 : u[j] = s[j]
      BY <1>1, <2>0, <3>2
    <3>4. i + k <= Len(u) => u[i + k].what \in Heads
      <4>1. CASE i + k <= Len(s)
        BY <1>1, <2>0, <3>2, <4>1
      <4>2. CASE i + k = Len(s) + 1
        BY <1>1, <1>3, <4>2
      <4>3. i + k <= Len(s) + 1
        BY <3>2
      <4>4. i + k <= Len(s) \/ i + k = Len(s) + 1
        BY <2>0, <4>3
      <4> QED
        BY <4>1, <4>2, <4>4
    <3>5. i + k <= Len(u) + 1
      BY <1>1, <2>0, <3>2
    <3> QED
      BY <3>1, <3>2, <3>3, <3>4, <3>5 DEF k
  <2>2. CASE i > Len(s)
    <3> DEFINE h == i - Len(s)
    <3>1. h \in 1 .. Len(t) /\ u[i] = t[h] /\ i = Len(s) + h
      BY <1>1, <2>2
    <3> HIDE DEF k, h
    <3>2. /\ t[h].what = "result" => t[h].pages > 0
          /\ h + k <= Len(t) + 1
          /\ \A j \in h + 1 .. h + k - 1 : t[j].what \notin Heads
          /\ h + k <= Len(t) => t[h + k].what \in Heads
      BY <1>1, <1>5, <3>1 DEF Whole, k
    <3>3. ASSUME NEW j \in i + 1 .. i + k - 1
          PROVE  u[j].what \notin Heads
      <4>1. j - Len(s) \in h + 1 .. h + k - 1 /\ j - Len(s) \in 1 .. Len(t)
            /\ Len(s) + (j - Len(s)) = j
        BY <1>1, <2>0, <3>1, <3>2
      <4>2. u[Len(s) + (j - Len(s))] = t[j - Len(s)]
        BY <1>1, <4>1
      <4> QED
        BY <3>2, <4>1, <4>2
    <3>4. i + k <= Len(u) => u[i + k].what \in Heads
      <4>1. i + k = Len(s) + (h + k) /\ (i + k <= Len(u) => h + k \in 1 .. Len(t))
        BY <1>1, <2>0, <3>1
      <4> QED
        BY <1>1, <3>2, <4>1
    <3>5. i + k <= Len(u) + 1
      BY <1>1, <2>0, <3>1, <3>2
    <3> QED
      BY <3>1, <3>2, <3>3, <3>4, <3>5 DEF k
  <2> QED
    BY <1>1, <2>1, <2>2
<1> QED
  BY <1>1, <1>4, <1>5 DEF Whole, u

\* What is written
LEMMA MessageFacts ==
  ASSUME NEW what \in {"error", "signal"}
  PROVE  LET m == <<[what |-> what, pages |-> 0], [what |-> "message", pages |-> 0]>>
         IN  /\ m \in Seq(Item) /\ Whole(m) /\ OfOnePage(m)
             /\ Answers(m) \subseteq {1} /\ (what = "signal" => Answers(m) = {})
             /\ m[1].what = what
<1> DEFINE m == <<[what |-> what, pages |-> 0], [what |-> "message", pages |-> 0]>>
<1>1. m \in Seq(Item) /\ Len(m) = 2 /\ DOMAIN m = 1 .. 2
      /\ m[1] = [what |-> what, pages |-> 0] /\ m[2] = [what |-> "message", pages |-> 0]
  BY ItemFacts DEF Item, Heads
<1> HIDE DEF m
<1>2. m[1].what = what /\ m[2].what = "message" /\ m[1].pages = 0 /\ m[2].pages = 0
  BY <1>1
<1>3. Size(m[1]) = 2
  BY <1>2 DEF Size, MessageItems
<1>4. Whole(m)
  BY <1>1, <1>2, <1>3 DEF Whole, Heads
<1>5. OfOnePage(m)
  BY <1>1, <1>2 DEF OfOnePage
<1>6. Answers(m) \subseteq {1} /\ (what = "signal" => Answers(m) = {})
  BY <1>1, <1>2 DEF Answers
<1> QED
  BY <1>1, <1>2, <1>4, <1>5, <1>6 DEF m

LEMMA DataFacts ==
  ASSUME NEW n \in 1 .. MaxPages
  PROVE  LET d == <<[what |-> "result", pages |-> n]>> \o Pages(n)
         IN  /\ d \in Seq(Item) /\ Whole(d) /\ (n <= 1 => OfOnePage(d))
             /\ Answers(d) \subseteq {1} /\ d[1].what = "result"
<1> DEFINE h == <<[what |-> "result", pages |-> n]>>
           p == Pages(n)
           d == h \o p
<1>1. h \in Seq(Item) /\ Len(h) = 1 /\ h[1] = [what |-> "result", pages |-> n]
  BY ItemFacts DEF Item, Heads
<1>2. p \in Seq(Item) /\ Len(p) = n /\ \A i \in 1 .. n : p[i] = [what |-> "page", pages |-> 0]
  <2>1. n \in Nat /\ [what |-> "page", pages |-> 0] \in Item
    BY ItemFacts DEF Item
  <2>2. p \in [1 .. n -> Item] /\ \A i \in 1 .. n : p[i] = [what |-> "page", pages |-> 0]
    BY <2>1 DEF Pages
  <2>3. p \in Seq(Item)
    BY <2>1, <2>2, SeqDef
  <2> QED
    BY <2>1, <2>2, <2>3, LenProperties
<1> HIDE DEF h, p
<1>3. d \in Seq(Item) /\ Len(d) = n + 1 /\ DOMAIN d = 1 .. n + 1 /\ d[1] = h[1]
      /\ \A i \in 1 .. n : d[1 + i] = p[i]
  <2>1. /\ d \in Seq(Item) /\ Len(d) = Len(h) + Len(p) /\ DOMAIN d = 1 .. Len(h) + Len(p)
        /\ \A i \in 1 .. Len(h) : d[i] = h[i]
        /\ \A i \in 1 .. Len(p) : d[Len(h) + i] = p[i]
    <3>1. h \in Seq(Item) /\ p \in Seq(Item)
      BY <1>1, <1>2
    <3> QED
      BY <3>1, Joined
  <2> HIDE DEF d
  <2>2. 1 + n = n + 1 /\ 1 \in 1 .. 1
    OBVIOUS
  <2> QED
    BY <1>1, <1>2, <2>1, <2>2
<1> HIDE DEF d
<1>4. d[1].what = "result" /\ d[1].pages = n
  BY <1>1, <1>3
<1>5. \A i \in 2 .. n + 1 : d[i].what = "page" /\ d[i].pages = 0
  <2> SUFFICES ASSUME NEW i \in 2 .. n + 1 PROVE d[i] = p[i - 1] /\ i - 1 \in 1 .. n
    BY <1>2
  <2>1. i - 1 \in 1 .. n /\ 1 + (i - 1) = i
    OBVIOUS
  <2> QED
    BY <1>3, <2>1
<1>6. Size(d[1]) = 1 + n
  BY <1>4 DEF Size
<1>7. Whole(d)
  <2>1. \A i \in DOMAIN d : d[i].what \in Heads => i = 1
    BY <1>3, <1>5 DEF Heads
  <2>2. \A j \in 2 .. n + 1 : d[j].what \notin Heads
    BY <1>5 DEF Heads
  <2>3. d[1].what \in Heads /\ d[1].pages > 0 /\ 1 + Size(d[1]) = Len(d) + 1
    BY <1>3, <1>4, <1>6 DEF Heads
  <2>4. ~(1 + Size(d[1]) <= Len(d)) /\ 1 + Size(d[1]) - 1 = n + 1
    BY <1>3, <1>6
  <2> QED
    BY <1>3, <2>1, <2>2, <2>3, <2>4 DEF Whole
<1>8. n <= 1 => OfOnePage(d)
  BY <1>3, <1>4, <1>5 DEF OfOnePage
<1>9. Answers(d) \subseteq {1}
  BY <1>3, <1>5 DEF Answers
<1> QED
  BY <1>3, <1>4, <1>7, <1>8, <1>9 DEF d, h, p

\* The answers in pieces of a sequence, and in one put behind another
LEMMA AnswersCut ==
  ASSUME NEW s \in Seq(Item), NEW k \in 0 .. Len(s)
  PROVE  /\ \A i \in Answers(SubSeq(s, 1, k)) :
              i \in Answers(s) /\ i <= k /\ SubSeq(s, 1, k)[i] = s[i]
         /\ \A i \in Answers(SubSeq(s, k + 1, Len(s))) :
              i > 0 /\ i + k \in Answers(s) /\ SubSeq(s, k + 1, Len(s))[i] = s[i + k]
<1> DEFINE t == SubSeq(s, 1, k)
           u == SubSeq(s, k + 1, Len(s))
<1>1. /\ Len(s) \in Nat
      /\ DOMAIN s = 1 .. Len(s) /\ DOMAIN t = 1 .. k /\ DOMAIN u = 1 .. Len(s) - k
      /\ \A i \in 1 .. k : t[i] = s[i]
      /\ \A i \in 1 .. Len(s) - k : u[i] = s[i + k]
  BY Cut
<1> HIDE DEF t, u
<1>2. \A i \in Answers(t) : i \in Answers(s) /\ i <= k /\ t[i] = s[i]
  BY <1>1 DEF Answers
<1>3. \A i \in Answers(u) : i > 0 /\ i + k \in Answers(s) /\ u[i] = s[i + k]
  BY <1>1 DEF Answers
<1> QED
  BY <1>2, <1>3 DEF t, u

LEMMA AnswersJoined ==
  ASSUME NEW s \in Seq(Item), NEW t \in Seq(Item), NEW i \in Answers(s \o t)
  PROVE  \/ i \in Answers(s) /\ (s \o t)[i] = s[i]
         \/ i - Len(s) \in Answers(t) /\ (s \o t)[i] = t[i - Len(s)]
<1> DEFINE u == s \o t
<1>1. /\ Len(s) \in Nat /\ Len(t) \in Nat
      /\ DOMAIN s = 1 .. Len(s) /\ DOMAIN t = 1 .. Len(t) /\ DOMAIN u = 1 .. Len(s) + Len(t)
      /\ \A j \in 1 .. Len(s) : u[j] = s[j]
      /\ \A j \in 1 .. Len(t) : u[Len(s) + j] = t[j]
  BY Joined
<1>2. i \in Answers(u)
  OBVIOUS
<1> HIDE DEF u
<1>3. i \in 1 .. Len(s) + Len(t) /\ u[i].what \in {"result", "error"}
  BY <1>1, <1>2 DEF Answers
<1>4. CASE i <= Len(s)
  BY <1>1, <1>3, <1>4 DEF Answers, u
<1>5. CASE i > Len(s)
  <2>1. i - Len(s) \in 1 .. Len(t) /\ Len(s) + (i - Len(s)) = i
    BY <1>1, <1>3, <1>5
  <2>2. u[i] = t[i - Len(s)]
    BY <1>1, <2>1
  <2> QED
    BY <1>1, <1>3, <2>1, <2>2 DEF Answers, u
<1> QED
  BY <1>1, <1>3, <1>4, <1>5

LEMMA EmptyPipe == Whole(<<>>) /\ OfOnePage(<<>>) /\ Answers(<<>>) = {} /\ <<>> \in Seq(Item)
BY DEF Whole, OfOnePage, Answers

LEMMA OnePageCut ==
  ASSUME NEW s \in Seq(Item), OfOnePage(s), NEW k \in 0 .. Len(s)
  PROVE  OfOnePage(SubSeq(s, 1, k)) /\ OfOnePage(SubSeq(s, k + 1, Len(s)))
<1> DEFINE t == SubSeq(s, 1, k)
           u == SubSeq(s, k + 1, Len(s))
<1>1. /\ Len(s) \in Nat
      /\ DOMAIN s = 1 .. Len(s) /\ DOMAIN t = 1 .. k /\ DOMAIN u = 1 .. Len(s) - k
      /\ \A i \in 1 .. k : t[i] = s[i]
      /\ \A i \in 1 .. Len(s) - k : u[i] = s[i + k]
  BY Cut
<1> HIDE DEF t, u
<1> QED
  BY <1>1 DEF OfOnePage, t, u

LEMMA OnePageJoined ==
  ASSUME NEW s \in Seq(Item), NEW t \in Seq(Item), OfOnePage(s), OfOnePage(t)
  PROVE  OfOnePage(s \o t)
<1> DEFINE u == s \o t
<1>1. /\ Len(s) \in Nat /\ Len(t) \in Nat
      /\ DOMAIN s = 1 .. Len(s) /\ DOMAIN t = 1 .. Len(t) /\ DOMAIN u = 1 .. Len(s) + Len(t)
      /\ \A j \in 1 .. Len(s) : u[j] = s[j]
      /\ \A j \in 1 .. Len(t) : u[Len(s) + j] = t[j]
  BY Joined
<1> HIDE DEF u
<1>2. ASSUME NEW i \in DOMAIN u PROVE u[i].pages <= 1
  <2>1. CASE i <= Len(s)
    BY <1>1, <2>1 DEF OfOnePage
  <2>2. CASE i > Len(s)
    <3>1. i - Len(s) \in 1 .. Len(t) /\ Len(s) + (i - Len(s)) = i
      BY <1>1, <2>2
    <3>2. u[i] = t[i - Len(s)]
      BY <1>1, <3>1
    <3> QED
      BY <1>1, <3>1, <3>2 DEF OfOnePage
  <2> QED
    BY <1>1, <2>1, <2>2
<1> QED
  BY <1>2 DEF OfOnePage, u

-----------------------------------------------------------------------------
(* Types, and when the handler listens *)

\* What is sent for a request, and what the session core is told of it, has its type.
LEMMA HistoryTypes ==
  ASSUME PipeTypeOK
  PROVE  /\ \A kind \in {"result", "error", "refused"}, r \in 0 .. MaxRequests :
              [outcome EXCEPT ![r] = Append(@, kind)]
                \in [Request -> Seq({"result", "error", "refused"})]
         /\ \A kind \in {"result", "error", "end"}, r \in 0 .. MaxRequests :
              [sent EXCEPT ![r] = @ \cup {kind}] \in [Request -> SUBSET {"result", "error", "end"}]
<1> DEFINE K == {"result", "error", "refused"}
<1>1. outcome \in [Request -> Seq(K)] /\ sent \in [Request -> SUBSET {"result", "error", "end"}]
  BY DEF PipeTypeOK
<1>2. ASSUME NEW kind \in K, NEW r \in 0 .. MaxRequests
      PROVE  [outcome EXCEPT ![r] = Append(@, kind)] \in [Request -> Seq(K)]
  <2>1. r \in Request => Append(outcome[r], kind) \in Seq(K)
    BY <1>1, AppendProperties
  <2> QED
    BY <1>1, <2>1
<1> QED
  BY <1>1, <1>2

LEMMA SendKeepsTypes ==
  ASSUME PipeTypeOK, Hearing, UNCHANGED interference, NEW m \in Seq(Item), Sending,
         stdout' = stdout \o m, sent' \in [Request -> SUBSET {"result", "error", "end"}],
         Without({"big"}) => OfOnePage(m)
  PROVE  PipeTypeOK' /\ Hearing'
<1>1. stdout \in Seq(Item) /\ stdout' \in Seq(Item)
  BY Joined DEF PipeTypeOK
<1>2. sends' \in 0 .. MaxSends
  BY ItemFacts DEF PipeTypeOK, Sending
<1>3. PipeTypeOK'
  BY <1>1, <1>2 DEF PipeTypeOK, Sending
<1>4. Without({"big"}) => OfOnePage(stdout')
  BY <1>1, OnePageJoined DEF Hearing
<1>5. Without({"big"})' = Without({"big"})
  BY DEF Without
<1> QED
  BY <1>3, <1>4, <1>5 DEF Hearing, Sending

LEMMA ArriveKeepsTypes ==
  ASSUME PipeTypeOK, Hearing, UNCHANGED interference, NEW k \in 1 .. Len(stdout), Arrive(k)
  PROVE  PipeTypeOK' /\ Hearing'
<1> DEFINE t == SubSeq(stdout, 1, k)
<1>1. stdout \in Seq(Item) /\ arrived \in Seq(Item) /\ Len(stdout) \in Nat
  BY LenProperties DEF PipeTypeOK
<1>2. k \in 0 .. Len(stdout)
  BY <1>1
<1>3. t \in Seq(Item) /\ Len(t) = k /\ stdout' \in Seq(Item)
  BY <1>1, <1>2, Cut DEF Arrive
<1>4. arrived' = arrived \o t
  BY DEF Arrive
<1> HIDE DEF t
<1>5. arrived' \in Seq(Item) /\ Len(arrived') = Len(arrived) + k
  BY <1>1, <1>3, <1>4, Joined
<1>6. arrived' # <<>>
  <2>1. Len(arrived) \in Nat /\ Len(arrived') > 0
    BY <1>1, <1>5, LenProperties
  <2> QED
    BY <2>1, EmptySeq
<1>7. /\ proxy' = [proxy EXCEPT !.reading = proxy.listening]
      /\ UNCHANGED <<child, doing, request, sends, outcome, sent>>
  BY DEF Arrive
<1>8. PipeTypeOK'
  BY <1>3, <1>5, <1>6, <1>7 DEF PipeTypeOK, Hearing
<1>9. ASSUME Without({"big"})
      PROVE  OfOnePage(stdout') /\ OfOnePage(arrived')
  <2>1. OfOnePage(stdout) /\ OfOnePage(arrived)
    BY <1>9 DEF Hearing
  <2>2. OfOnePage(t) /\ OfOnePage(stdout')
    BY <1>1, <1>2, <2>1, OnePageCut DEF Arrive, t
  <2> QED
    BY <1>1, <1>3, <1>4, <2>1, <2>2, OnePageJoined
<1>10. Without({"big"})' = Without({"big"})
  BY DEF Without
<1>12. child # "ended" /\ child' = child
  BY <1>1, <1>7, EmptySeq DEF Hearing
<1>11. proxy'.reading = proxy.listening /\ proxy'.listening = proxy.listening
       /\ proxy'.missing = proxy.missing
  BY <1>7 DEF PipeTypeOK
<1> QED
  BY <1>8, <1>9, <1>10, <1>11, <1>12 DEF Hearing

\* onReadStandardOutput() listens again unless it waits for more pages.
LEMMA ReadKeepsTypes ==
  ASSUME PipeTypeOK, Hearing, UNCHANGED interference, OnReadStandardOutput
  PROVE  PipeTypeOK' /\ Hearing'
<1>1. /\ arrived \in Seq(Item) /\ proxy.reading /\ proxy.listening /\ proxy.missing = 0
      /\ arrived # <<>> /\ Len(arrived) \in Nat \ {0} /\ Head(arrived) = arrived[1]
      /\ Head(arrived) \in Item
  <2>1. proxy.reading /\ arrived \in Seq(Item)
    BY DEF OnReadStandardOutput, UnknownOperation, ReadResult, ReadFirstPage, ReadNothing,
           ReadError, ReadSignal, Reads, PipeTypeOK
  <2>2. arrived # <<>>
    BY <2>1 DEF PipeTypeOK
  <2> QED
    BY <2>1, <2>2, EmptySeq, HeadTailProperties, TailIsRemoveAt DEF Hearing
<1>2. UNCHANGED <<doing, stdout, request, sends, sent>>
  BY DEF OnReadStandardOutput, UnknownOperation, ReadResult, ReadFirstPage, ReadNothing,
         ReadError, ReadSignal, Reads
<1>3. Without({"big"})' = Without({"big"})
  BY DEF Without
<1>4. outcome' \in [Request -> Seq({"result", "error", "refused"})]
  <2>1. \A kind \in {"result", "error"} :
          Told(kind) => outcome' \in [Request -> Seq({"result", "error", "refused"})]
    BY HistoryTypes DEF Told, PipeTypeOK
  <2>2. outcome \in [Request -> Seq({"result", "error", "refused"})]
    BY DEF PipeTypeOK
  <2> QED
    BY <2>1, <2>2 DEF OnReadStandardOutput, UnknownOperation, ReadResult, ReadFirstPage,
         ReadNothing, ReadError, ReadSignal, TellFirst, BlobError
<1>5. child' \in {"running", "stopping", "ended"}
  BY DEF OnReadStandardOutput, UnknownOperation, ReadResult, ReadFirstPage, ReadNothing,
         ReadError, ReadSignal, BlobError, PipeTypeOK
<1> DEFINE Fits ==
      /\ arrived' \in Seq(Item)
      /\ Without({"big"}) => OfOnePage(arrived')
      /\ proxy' \in [processing : BOOLEAN, obtained : BOOLEAN, listening : BOOLEAN,
                     reading : BOOLEAN, missing : 0 .. MaxPages]
      /\ proxy'.reading => proxy'.listening /\ arrived' # <<>>
      /\ proxy'.listening /\ ~proxy'.reading => arrived' = <<>>
      /\ proxy'.listening => proxy'.missing = 0
      /\ Without({"big"}) => proxy'.listening
      /\ child' # "ended"
<1>6. Fits
  <2>0. child' # "ended"
    BY <1>1 DEF OnReadStandardOutput, UnknownOperation, ReadResult, ReadFirstPage, ReadNothing,
         ReadError, ReadSignal, BlobError, PipeTypeOK, Hearing
  <2>1. proxy \in [processing : BOOLEAN, obtained : BOOLEAN, listening : BOOLEAN,
                   reading : BOOLEAN, missing : 0 .. MaxPages]
    BY DEF PipeTypeOK
  <2>2. ASSUME NEW change \in {proxy, Final}, Handled(2, change)
        PROVE  Fits
    <3> DEFINE u == SubSeq(arrived, 3, Len(arrived))
    <3>1. u \in Seq(Item) /\ (Len(arrived) > 2 => u # <<>>) /\ (~(Len(arrived) > 2) => u = <<>>)
          /\ (Without({"big"}) => OfOnePage(u))
      <4>1. CASE Len(arrived) > 2
        <5>1. 2 \in 0 .. Len(arrived) /\ Len(arrived) - 2 > 0
          BY <1>1, <4>1
        <5>2. u \in Seq(Item) /\ Len(u) = Len(arrived) - 2
          BY <1>1, <5>1, Cut
        <5>3. u # <<>>
          BY <5>1, <5>2, EmptySeq
        <5>4. Without({"big"}) => OfOnePage(u)
          BY <1>1, <5>1, OnePageCut DEF Hearing
        <5> QED
          BY <4>1, <5>2, <5>3, <5>4
      <4>2. CASE ~(Len(arrived) > 2)
        <5>1. u = <<>>
          BY <1>1, <4>2, SubSeqEmpty
        <5> QED
          BY <4>2, <5>1, EmptyPipe
      <4> QED
        BY <4>1, <4>2
    <3>5. child' # "ended"
      BY <2>0
    <3> HIDE DEF u
    <3>2. arrived' = u /\ proxy' = [change EXCEPT !.reading = Len(arrived) > 2, !.listening = TRUE]
      BY <2>2 DEF Handled, u
    <3>3. change.missing = 0 /\ change \in [processing : BOOLEAN, obtained : BOOLEAN,
            listening : BOOLEAN, reading : BOOLEAN, missing : 0 .. MaxPages]
      BY <1>1, <2>1, <2>2 DEF Final
    <3>4. proxy'.listening /\ proxy'.missing = 0 /\ proxy'.reading = (Len(arrived) > 2)
      BY <3>2, <3>3
    <3>6. proxy' \in [processing : BOOLEAN, obtained : BOOLEAN, listening : BOOLEAN,
                      reading : BOOLEAN, missing : 0 .. MaxPages]
      <4>1. \A b \in BOOLEAN : [change EXCEPT !.reading = b, !.listening = TRUE] \in
              [processing : BOOLEAN, obtained : BOOLEAN, listening : BOOLEAN,
               reading : BOOLEAN, missing : 0 .. MaxPages]
        BY <3>3
      <4>2. (Len(arrived) > 2) \in BOOLEAN
        OBVIOUS
      <4> QED
        BY <3>2, <4>1, <4>2
    <3> QED
      BY <3>1, <3>2, <3>4, <3>5, <3>6
  <2>3. CASE ReadResult \/ ReadError \/ ReadSignal
    <3>1. Handled(2, Final) \/ Handled(2, proxy)
      BY <2>3 DEF ReadResult, ReadError, ReadSignal, MessageItems
    <3> QED
      BY <2>2, <3>1
  <2>4. CASE UnknownOperation \/ ReadNothing
    BY <1>1, <2>0, <2>1, <2>4, EmptyPipe DEF UnknownOperation, ReadNothing, BlobError
  <2>5. CASE ReadFirstPage
    <3>1. arrived' = SubSeq(arrived, 2 + 1, Len(arrived)) /\ Len(arrived) > 1
          /\ Head(arrived).pages > 1
      BY <2>5 DEF ReadFirstPage
    <3>2. 2 \in 0 .. Len(arrived)
      BY <1>1, <3>1
    <3>3. arrived' \in Seq(Item)
      BY <1>1, <3>1, <3>2, Cut
    <3>4. ~Without({"big"})
      BY <1>1, <3>1, ItemFacts DEF Hearing, OfOnePage
    <3>5. Head(arrived).pages - 1 \in 0 .. MaxPages
      BY <1>1, <3>1, ItemFacts
    <3>6. proxy' = [proxy EXCEPT !.reading = FALSE, !.listening = FALSE,
                                 !.missing = Head(arrived).pages - 1]
      BY <2>5 DEF ReadFirstPage
    <3> QED
      BY <2>0, <2>1, <3>3, <3>4, <3>5, <3>6
  <2> QED
    BY <2>3, <2>4, <2>5 DEF OnReadStandardOutput
<1>7. PipeTypeOK'
  BY <1>2, <1>4, <1>5, <1>6 DEF PipeTypeOK
<1> QED
  BY <1>2, <1>3, <1>6, <1>7 DEF Hearing

LEMMA TypesNext ==
  ASSUME PipeTypeOK, Hearing, PipeNext
  PROVE  PipeTypeOK' /\ Hearing'
<1>0. UNCHANGED interference /\ Without({"big"})' = Without({"big"})
  BY DEF PipeNext, Without
<1>1. CASE Process
  <2>1. request' \in 0 .. MaxRequests /\ doing' \in 0 .. request'
    BY <1>1, ItemFacts DEF Process, MayProcess, PipeTypeOK
  <2>2. proxy' = [proxy EXCEPT !.processing = TRUE, !.obtained = FALSE]
        /\ UNCHANGED <<child, stdout, arrived, sends, outcome, sent>>
    BY <1>1 DEF Process
  <2>3. PipeTypeOK'
    BY <1>0, <2>1, <2>2 DEF PipeTypeOK
  <2>4. proxy'.reading = proxy.reading /\ proxy'.listening = proxy.listening
        /\ proxy'.missing = proxy.missing
    BY <2>2 DEF PipeTypeOK
  <2> QED
    BY <1>0, <2>2, <2>3, <2>4 DEF Hearing
<1>2. CASE ProcessRestarting
  <2>1. outcome' \in [Request -> Seq({"result", "error", "refused"})]
    <3>1. <<"refused">> \in Seq({"result", "error", "refused"})
      OBVIOUS
    <3> QED
      BY <1>2, <3>1 DEF ProcessRestarting, PipeTypeOK
  <2>2. request' \in 0 .. MaxRequests /\ doing' \in 0 .. request'
    BY <1>2, ItemFacts DEF ProcessRestarting, MayProcess, PipeTypeOK
  <2>3. ~proxy.reading
    BY <1>2 DEF ProcessRestarting, Hearing
  <2>4. /\ proxy' \in [processing : BOOLEAN, obtained : BOOLEAN, listening : BOOLEAN,
                       reading : BOOLEAN, missing : 0 .. MaxPages]
        /\ ~proxy'.reading /\ proxy'.listening = proxy.listening /\ proxy'.missing = 0
    <3>1. proxy' = [proxy EXCEPT !.missing = 0] \/
          proxy' = [proxy EXCEPT !.processing = TRUE, !.obtained = FALSE, !.missing = 0]
      BY <1>2 DEF ProcessRestarting
    <3>2. proxy \in [processing : BOOLEAN, obtained : BOOLEAN, listening : BOOLEAN,
                     reading : BOOLEAN, missing : 0 .. MaxPages] /\ 0 \in 0 .. MaxPages
      BY ItemFacts DEF PipeTypeOK
    <3> QED
      BY <2>3, <3>1, <3>2
  <2>5. child' = "running" /\ stdout' = <<>> /\ arrived' = <<>> /\ UNCHANGED <<sends, sent>>
    BY <1>2 DEF ProcessRestarting
  <2>6. PipeTypeOK'
    BY <1>0, <2>1, <2>2, <2>4, <2>5, EmptyPipe DEF PipeTypeOK
  <2> QED
    BY <1>0, <2>4, <2>5, <2>6, EmptyPipe DEF Hearing
<1>3. ASSUME NEW pages \in 1 .. MaxPages, Result(pages)
      PROVE  PipeTypeOK' /\ Hearing'
  <2> DEFINE d == <<[what |-> "result", pages |-> pages]>> \o Pages(pages)
  <2>1. stdout' = stdout \o d
    BY <1>3, ConcatAssociative DEF Result, SendData
  <2>2. sent' \in [Request -> SUBSET {"result", "error", "end"}]
    BY <1>3, HistoryTypes DEF Result, Answering, PipeTypeOK
  <2>3. d \in Seq(Item) /\ (Without({"big"}) => OfOnePage(d))
    <3>1. Without({"big"}) => pages <= 1
      BY <1>3 DEF Result, Without, May
    <3> QED
      BY <3>1, DataFacts
  <2> HIDE DEF d
  <2> QED
    BY <1>0, <1>3, <2>1, <2>2, <2>3, SendKeepsTypes DEF Result
<1>4. ASSUME NEW what \in {"error", "signal"}, Sending, SendMessage(what),
             sent' \in [Request -> SUBSET {"result", "error", "end"}]
      PROVE  PipeTypeOK' /\ Hearing'
  <2> DEFINE m == <<[what |-> what, pages |-> 0], [what |-> "message", pages |-> 0]>>
  <2>1. m \in Seq(Item) /\ OfOnePage(m)
    BY MessageFacts
  <2>2. stdout' = stdout \o m
    BY <1>4 DEF SendMessage
  <2> HIDE DEF m
  <2> QED
    BY <1>0, <1>4, <2>1, <2>2, SendKeepsTypes
<1>5. CASE Error
  <2>1. sent' \in [Request -> SUBSET {"result", "error", "end"}]
    BY <1>5, HistoryTypes DEF Error, Answering, PipeTypeOK
  <2> QED
    BY <1>4, <1>5, <2>1 DEF Error
<1>6. CASE StatusChanged
  <2>1. sent' \in [Request -> SUBSET {"result", "error", "end"}]
    BY <1>6 DEF StatusChanged, PipeTypeOK
  <2> QED
    BY <1>4, <1>6, <2>1 DEF StatusChanged
<1>7. ASSUME NEW k \in 1 .. Len(stdout), Arrive(k)
      PROVE  PipeTypeOK' /\ Hearing'
  BY <1>0, <1>7, ArriveKeepsTypes
<1>8. CASE OnReadStandardOutput
  BY <1>0, <1>8, ReadKeepsTypes
<1>9. CASE OnExit
  <2>1. /\ child' = "ended" /\ doing' = 0 /\ stdout = <<>> /\ ~proxy.reading
        /\ proxy' = [proxy EXCEPT !.processing = FALSE]
        /\ UNCHANGED <<stdout, arrived, request, sends>>
    BY <1>9 DEF OnExit
  <2>2. outcome' \in [Request -> Seq({"result", "error", "refused"})]
        /\ sent' \in [Request -> SUBSET {"result", "error", "end"}]
    <3>1. outcome \in [Request -> Seq({"result", "error", "refused"})]
          /\ sent \in [Request -> SUBSET {"result", "error", "end"}] /\ request \in 0 .. MaxRequests
      BY DEF PipeTypeOK
    <3>2. outcome' = outcome \/ outcome' = [outcome EXCEPT ![request] = Append(@, "error")]
      BY <1>9 DEF OnExit, Told
    <3>3. sent' = sent \/ sent' = [sent EXCEPT ![request] = @ \cup {"end"}]
      BY <1>9 DEF OnExit
    <3>4. [outcome EXCEPT ![request] = Append(@, "error")]
            \in [Request -> Seq({"result", "error", "refused"})]
      BY <3>1, HistoryTypes
    <3>5. [sent EXCEPT ![request] = @ \cup {"end"}] \in [Request -> SUBSET {"result", "error", "end"}]
      BY <3>1, HistoryTypes
    <3> QED
      BY <3>1, <3>2, <3>3, <3>4, <3>5
  <2>5. doing' \in 0 .. request' /\ request' \in 0 .. MaxRequests
    BY <2>1, ItemFacts DEF PipeTypeOK
  <2>3. PipeTypeOK'
    BY <1>0, <2>1, <2>2, <2>5 DEF PipeTypeOK
  <2>4. proxy'.reading = proxy.reading /\ proxy'.listening = proxy.listening
        /\ proxy'.missing = proxy.missing
    BY <2>1 DEF PipeTypeOK
  <2> QED
    BY <1>0, <2>1, <2>3, <2>4 DEF Hearing
<1> QED
  BY <1>1, <1>2, <1>3, <1>5, <1>6, <1>7, <1>8, <1>9 DEF PipeNext

-----------------------------------------------------------------------------
(* Answers that arrive at once *)

\* What is read of a sequence of whole messages is one, or the first page of one.
LEMMA ReadsWhole ==
  ASSUME PipeTypeOK, Hearing, InOrder, OnReadStandardOutput
  PROVE  /\ ReadResult \/ ReadFirstPage \/ ReadError \/ ReadSignal
         /\ arrived \in Seq(Item) /\ Len(arrived) \in Nat /\ Len(arrived) >= 2
         /\ Head(arrived) = arrived[1]
         /\ ~ReadFirstPage => Whole(SubSeq(arrived, 3, Len(arrived)))
<1>1. /\ arrived \in Seq(Item) /\ proxy.reading /\ arrived # <<>>
      /\ Len(arrived) \in Nat \ {0} /\ Head(arrived) = arrived[1] /\ arrived[1] \in Item
      /\ DOMAIN arrived = 1 .. Len(arrived)
  <2>1. proxy.reading /\ arrived \in Seq(Item)
    BY DEF OnReadStandardOutput, UnknownOperation, ReadResult, ReadFirstPage, ReadNothing,
           ReadError, ReadSignal, Reads, PipeTypeOK
  <2>2. arrived # <<>>
    BY <2>1 DEF PipeTypeOK
  <2> QED
    BY <2>1, <2>2, EmptySeq, HeadTailProperties, TailIsRemoveAt, LenProperties
<1> DEFINE h == arrived[1]
<1>2. Whole(arrived) /\ h.what \in Heads
  BY <1>1 DEF InOrder, Whole
<1>3. /\ h.what = "result" => h.pages > 0 /\ h.pages \in Nat
      /\ 1 + Size(h) <= Len(arrived) + 1 /\ Size(h) \in Nat
      /\ 1 + Size(h) <= Len(arrived) => arrived[1 + Size(h)].what \in Heads
  BY <1>1, <1>2, ItemFacts DEF Whole
<1>4. Len(arrived) >= 2
  BY <1>1, <1>3 DEF Size, MessageItems
<1>5. ~UnknownOperation
  BY <1>1, <1>2 DEF UnknownOperation, Reads, Heads
<1>6. ~ReadNothing
  BY <1>1, <1>4 DEF ReadNothing
<1>7. ReadResult \/ ReadError \/ ReadSignal => Size(h) = 2
  BY <1>1 DEF ReadResult, ReadError, ReadSignal, Reads, Size, MessageItems
<1>8. Size(h) = 2 => Whole(SubSeq(arrived, 3, Len(arrived)))
  <2> SUFFICES ASSUME Size(h) = 2 PROVE Whole(SubSeq(arrived, 2 + 1, Len(arrived)))
    OBVIOUS
  <2>1. 2 \in 0 .. Len(arrived) /\ (2 < Len(arrived) => arrived[2 + 1].what \in Heads)
    BY <1>1, <1>3, <1>4
  <2> QED
    BY <1>1, <1>2, <2>1, WholeCut
<1> QED
  BY <1>1, <1>4, <1>5, <1>6, <1>7, <1>8 DEF OnReadStandardOutput

\* What is sent is put behind what is in the pipe.
LEMMA SendInOrder ==
  ASSUME PipeTypeOK, InOrder, NEW m \in Seq(Item), Whole(m), Sending, stdout' = stdout \o m
  PROVE  InOrder'
<1>1. Whole(stdout')
  BY WholeJoined DEF InOrder, PipeTypeOK
<1>2. doing # 0 /\ child = "running" /\ UNCHANGED <<child, doing, arrived, proxy, request, outcome>>
  BY DEF Sending
<1>3. ToldOnce'
  BY <1>2 DEF InOrder, ToldOnce
<1> QED
  BY <1>1, <1>2, <1>3 DEF InOrder, Quiet

LEMMA OrderNext ==
  ASSUME PipeTypeOK, Hearing, InOrder, Without({"torn"}), PipeNext
  PROVE  InOrder'
<1>0. /\ request \in Nat /\ request \in 0 .. MaxRequests /\ MaxRequests \in Nat
      /\ outcome \in [Request -> Seq({"result", "error", "refused"})]
      /\ proxy \in [processing : BOOLEAN, obtained : BOOLEAN, listening : BOOLEAN,
                     reading : BOOLEAN, missing : 0 .. MaxPages]
      /\ stdout \in Seq(Item) /\ Request = 1 .. MaxRequests
  BY ItemFacts DEF PipeTypeOK, Request
\* The first that is told of a request is all that is told of it.
<1>1. ASSUME NEW kind \in {"result", "error"}, Told(kind),
             request > 0, outcome[request] = <<>>
      PROVE  /\ ToldOnce' /\ outcome'[request] # <<>>
             /\ \A r \in Request : r > request => outcome'[r] = <<>>
  <2>1. outcome' = [outcome EXCEPT ![request] = <<kind>>] /\ request \in Request
    BY <1>0, <1>1 DEF Told
  <2>2. <<kind>> # <<>> /\ Len(<<kind>>) = 1
    OBVIOUS
  <2>3. outcome'[request] = <<kind>> /\ \A r \in Request : r # request => outcome'[r] = outcome[r]
    BY <1>0, <2>1
  <2>4. ToldOnce'
    <3>1. ToldOnce
      BY DEF InOrder
    <3>2. Len(outcome'[request]) <= 1
      BY <2>2, <2>3
    <3>3. ASSUME NEW r \in Request PROVE Len(outcome'[r]) <= 1
      <4>1. Len(outcome[r]) <= 1
        BY <3>1 DEF ToldOnce
      <4> QED
        BY <2>3, <3>2, <4>1
    <3> QED
      BY <3>3 DEF ToldOnce
  <2> QED
    BY <1>0, <2>1, <2>2, <2>3, <2>4 DEF InOrder
<1>2. CASE Process
  <2>1. /\ request' = request + 1 /\ request' \in Request /\ child = "running"
        /\ doing' = request' /\ ~proxy.reading
        /\ proxy' = [proxy EXCEPT !.processing = TRUE, !.obtained = FALSE]
        /\ UNCHANGED <<child, stdout, outcome>>
    BY <1>0, <1>2 DEF Process, MayProcess, InOrder, PipeTypeOK
  <2>2. outcome'[request'] = <<>>
    BY <1>0, <2>1 DEF InOrder
  <2>3. ToldOnce' /\ Whole(stdout') /\ \A r \in Request : r > request' => outcome'[r] = <<>>
    BY <1>0, <2>1 DEF InOrder, ToldOnce
  <2>4. ~proxy'.reading /\ proxy'.processing /\ ~proxy'.obtained
    BY <1>0, <2>1
  <2> QED
    BY <1>0, <2>1, <2>2, <2>3, <2>4 DEF InOrder
<1>3. CASE ProcessRestarting
  <2>1. /\ request' = request + 1 /\ request' \in Request /\ child' = "running" /\ Quiet
        /\ stdout' = <<>>
    BY <1>0, <1>3 DEF ProcessRestarting, MayProcess, InOrder
  <2>2. outcome[request'] = <<>> /\ \A r \in Request : r > request' => outcome[r] = <<>>
    BY <1>0, <2>1 DEF InOrder
  <2>3. CASE proxy.listening
    <3>1. /\ outcome' = [outcome EXCEPT ![request'] = <<"refused">>] /\ doing' = 0
          /\ proxy' = [proxy EXCEPT !.missing = 0]
      BY <1>3, <2>1, <2>3 DEF ProcessRestarting
    <3>2. Len(<<"refused">>) = 1 /\ <<"refused">> # <<>>
      OBVIOUS
    <3>3. ToldOnce'
      BY <1>0, <3>1, <3>2 DEF InOrder, ToldOnce
    <3>4. ~proxy'.reading /\ ~proxy'.processing
      BY <1>0, <2>1, <3>1 DEF Quiet
    <3>5. outcome'[request'] # <<>> /\ \A r \in Request : r > request' => outcome'[r] = <<>>
      BY <1>0, <2>1, <2>2, <3>1, <3>2
    <3> QED
      BY <1>0, <2>1, <3>1, <3>3, <3>4, <3>5, EmptyPipe DEF InOrder, Quiet
  <2>4. CASE ~proxy.listening
    <3>1. /\ outcome' = outcome /\ doing' = request'
          /\ proxy' = [proxy EXCEPT !.processing = TRUE, !.obtained = FALSE, !.missing = 0]
      BY <1>3, <2>1, <2>4 DEF ProcessRestarting
    <3>2. ~proxy'.reading /\ proxy'.processing /\ ~proxy'.obtained
      BY <1>0, <2>1, <3>1 DEF Quiet
    <3>3. ToldOnce'
      BY <3>1 DEF InOrder, ToldOnce
    <3> QED
      BY <1>0, <2>1, <2>2, <3>1, <3>2, <3>3, EmptyPipe DEF InOrder
  <2> QED
    BY <2>3, <2>4
<1>4. ASSUME NEW pages \in 1 .. MaxPages, Result(pages)
      PROVE  InOrder'
  <2> DEFINE d == <<[what |-> "result", pages |-> pages]>> \o Pages(pages)
  <2>1. stdout' = stdout \o d /\ Sending
    BY <1>4, ConcatAssociative DEF Result, SendData
  <2>2. d \in Seq(Item) /\ Whole(d)
    BY DataFacts
  <2> HIDE DEF d
  <2> QED
    BY <2>1, <2>2, SendInOrder
<1>5. ASSUME NEW what \in {"error", "signal"}, Sending, SendMessage(what)
      PROVE  InOrder'
  <2> DEFINE m == <<[what |-> what, pages |-> 0], [what |-> "message", pages |-> 0]>>
  <2>1. m \in Seq(Item) /\ Whole(m)
    BY MessageFacts
  <2>2. stdout' = stdout \o m
    BY <1>5 DEF SendMessage
  <2> HIDE DEF m
  <2> QED
    BY <1>5, <2>1, <2>2, SendInOrder
<1>6. CASE Error \/ StatusChanged
  BY <1>5, <1>6 DEF Error, StatusChanged
<1>7. ASSUME NEW k \in 1 .. Len(stdout), Arrive(k)
      PROVE  InOrder'
  <2>1. /\ arrived' = arrived \o SubSeq(stdout, 1, k)
        /\ stdout' = SubSeq(stdout, k + 1, Len(stdout)) /\ IsWhole(k)
        /\ proxy' = [proxy EXCEPT !.reading = proxy.listening] /\ ~proxy.reading
        /\ UNCHANGED <<child, doing, request, outcome>>
    BY <1>7 DEF Arrive, Without, May
  <2>2. k \in 0 .. Len(stdout) /\ stdout # <<>> /\ (k < Len(stdout) => stdout[k + 1].what \in Heads)
    BY <1>0, <2>1, EmptySeq, LenProperties DEF IsWhole
  <2>3. Whole(SubSeq(stdout, 1, k)) /\ Whole(stdout') /\ SubSeq(stdout, 1, k) \in Seq(Item)
    BY <1>0, <2>1, <2>2, WholeCut, Cut DEF InOrder
  <2>4. proxy'.reading => Whole(arrived')
    <3>1. proxy'.reading => arrived = <<>>
      BY <1>0, <2>1 DEF Hearing
    <3> QED
      BY <2>1, <2>3, <3>1, ConcatEmptySeq
  <2>5. ToldOnce'
    BY <2>1 DEF InOrder, ToldOnce
  <2>6. proxy'.processing = proxy.processing /\ proxy'.obtained = proxy.obtained
    BY <1>0, <2>1
  <2> QED
    BY <2>1, <2>2, <2>3, <2>4, <2>5, <2>6 DEF InOrder, Quiet
<1>8. CASE OnReadStandardOutput
  <2>1. /\ ReadResult \/ ReadFirstPage \/ ReadError \/ ReadSignal
        /\ ~ReadFirstPage => Whole(SubSeq(arrived, 3, Len(arrived)))
    BY <1>8, ReadsWhole
  <2>2. proxy.reading /\ UNCHANGED <<child, doing, stdout, request>> /\ child # "ended"
    BY <2>1 DEF ReadResult, ReadFirstPage, ReadError, ReadSignal, Reads, Hearing
  <2>3. ~Quiet
    BY <2>2 DEF Quiet
  <2>4. CASE ReadFirstPage
    <3>1. proxy' = [proxy EXCEPT !.reading = FALSE, !.listening = FALSE,
                                 !.missing = Head(arrived).pages - 1] /\ UNCHANGED outcome
      BY <2>4 DEF ReadFirstPage
    <3>2. ~proxy'.reading /\ proxy'.processing = proxy.processing /\ proxy'.obtained = proxy.obtained
      BY <1>0, <3>1
    <3>3. ToldOnce'
      BY <3>1 DEF InOrder, ToldOnce
    <3> QED
      BY <2>2, <2>3, <3>1, <3>2, <3>3 DEF InOrder
  <2>5. CASE ReadSignal
    <3>1. /\ arrived' = SubSeq(arrived, 3, Len(arrived)) /\ UNCHANGED outcome
          /\ proxy' = [proxy EXCEPT !.reading = Len(arrived) > 2, !.listening = TRUE]
      BY <2>5 DEF ReadSignal, Handled, MessageItems
    <3>2. proxy'.processing = proxy.processing /\ proxy'.obtained = proxy.obtained
      BY <1>0, <3>1
    <3>3. ToldOnce'
      BY <3>1 DEF InOrder, ToldOnce
    <3>4. ~ReadFirstPage
      BY <2>5 DEF ReadSignal, ReadFirstPage, Reads
    <3> QED
      BY <2>1, <2>2, <2>3, <3>1, <3>2, <3>3, <3>4 DEF InOrder
  <2>6. CASE ReadResult \/ ReadError
    <3>1. /\ arrived' = SubSeq(arrived, 3, Len(arrived)) /\ ~ReadFirstPage
          /\ proxy' = [Final EXCEPT !.reading = Len(arrived) > 2, !.listening = TRUE]
          /\ TellFirst("result") \/ TellFirst("error")
      BY <2>6 DEF ReadResult, ReadError, ReadFirstPage, Reads, Handled, MessageItems
    <3>2. ~proxy'.processing /\ proxy'.obtained
      BY <1>0, <3>1 DEF Final
    <3>3. ToldOnce' /\ \A r \in Request : r > request => outcome'[r] = <<>>
      <4>1. CASE proxy.obtained
        BY <3>1, <4>1 DEF TellFirst, InOrder, ToldOnce
      <4>2. CASE ~proxy.obtained
        <5>1. request > 0 /\ outcome[request] = <<>>
          BY <1>0, <2>3, <4>2 DEF InOrder
        <5> QED
          BY <1>1, <3>1, <4>2, <5>1 DEF TellFirst
      <4> QED
        BY <4>1, <4>2
    <3>4. request # 0
      BY <2>3 DEF InOrder
    <3> QED
      BY <2>1, <2>2, <3>1, <3>2, <3>3, <3>4 DEF InOrder
  <2> QED
    BY <2>1, <2>4, <2>5, <2>6
<1>9. CASE OnExit
  <2>1. /\ child' = "ended" /\ doing' = 0 /\ stdout = <<>> /\ ~proxy.reading
        /\ proxy' = [proxy EXCEPT !.processing = FALSE]
        /\ UNCHANGED <<stdout, arrived, request, sends>>
        /\ IF proxy.processing THEN Told("error") ELSE UNCHANGED outcome
    BY <1>9 DEF OnExit
  <2>2. ~proxy'.processing /\ ~proxy'.reading
    BY <1>0, <2>1
  <2>3. ToldOnce' /\ \A r \in Request : r > request => outcome'[r] = <<>>
    <3>1. CASE proxy.processing
      BY <1>1, <2>1, <3>1 DEF InOrder
    <3>2. CASE ~proxy.processing
      BY <2>1, <3>2 DEF InOrder, ToldOnce
    <3> QED
      BY <3>1, <3>2
  <2> QED
    BY <2>1, <2>2, <2>3, EmptyPipe DEF InOrder, Quiet
<1> QED
  BY <1>2, <1>3, <1>4, <1>6, <1>7, <1>8, <1>9 DEF PipeNext

-----------------------------------------------------------------------------
(* Plug-ins that answer once *)

LEMMA OneTold ==
  ASSUME NEW kind
  PROVE  Range(<<kind>>) = {kind} /\ Range(<<>>) = {}
BY DEF Range

\* An answer is sent when there is none on the way.
LEMMA SendAlone ==
  ASSUME PipeTypeOK, Hearing, InOrder, AnsweredAlone, Without({"twice"}),
         NEW kind \in {"result", "error"}, NEW m \in Seq(Item),
         Answers(m) \subseteq {1}, m[1].what = kind,
         Sending, stdout' = stdout \o m, Answering(kind)
  PROVE  AnsweredAlone'
<1>1. /\ doing = request /\ request \in Request /\ stdout \in Seq(Item) /\ Len(stdout) \in Nat
      /\ sent \in [Request -> SUBSET {"result", "error", "end"}]
      /\ outcome \in [Request -> Seq({"result", "error", "refused"})]
  <2>1. doing # 0 /\ doing \in {0, request} /\ request \in 0 .. MaxRequests /\ MaxRequests \in Nat
    BY ItemFacts DEF Sending, InOrder, PipeTypeOK
  <2>2. doing = request /\ request \in Request
    BY <2>1 DEF Request
  <2> QED
    BY <2>2, LenProperties DEF PipeTypeOK
<1>2. sent[request] = {} /\ sent' = [sent EXCEPT ![request] = {kind}]
  BY <1>1 DEF Answering, Without, May
<1>3. Answers(stdout) = {} /\ (proxy.reading => Answers(arrived) = {}) /\ outcome[request] = <<>>
  <2>1. Answers(stdout) = {}
    BY <1>2 DEF AnsweredAlone, AnswersRequest
  <2>2. proxy.reading => Answers(arrived) = {}
    BY <1>2 DEF AnsweredAlone, AnswersRequest
  <2>3. outcome[request] = <<>>
    BY <1>1, <1>2 DEF AnsweredAlone, Request, Sending
  <2> QED
    BY <2>1, <2>2, <2>3
<1>4. UNCHANGED <<child, doing, arrived, proxy, request, outcome>>
  BY DEF Sending
<1>5. AnswersRequest(stdout)'
  <2>1. \A i \in Answers(stdout') : i = Len(stdout) + 1 /\ stdout'[i].what = kind
    <3> SUFFICES ASSUME NEW i \in Answers(stdout \o m)
                 PROVE  i = Len(stdout) + 1 /\ (stdout \o m)[i].what = kind
      OBVIOUS
    <3>1. i - Len(stdout) \in Answers(m) /\ (stdout \o m)[i] = m[i - Len(stdout)]
      <4>1. stdout \in Seq(Item)
        BY <1>1
      <4>2. \/ i \in Answers(stdout)
            \/ i - Len(stdout) \in Answers(m) /\ (stdout \o m)[i] = m[i - Len(stdout)]
        BY <4>1, AnswersJoined
      <4> QED
        BY <1>3, <4>2
    <3>2. i \in Int
      <4>1. stdout \o m \in Seq(Item)
        BY <1>1, Joined
      <4> QED
        BY <4>1, LenProperties DEF Answers
    <3>3. i - Len(stdout) = 1
      BY <3>1
    <3> QED
      BY <1>1, <3>1, <3>2, <3>3
  <2>2. kind \in sent'[request]
    BY <1>1, <1>2
  <2> QED
    BY <1>3, <1>4, <2>1, <2>2 DEF AnswersRequest
<1>6. proxy'.reading => AnswersRequest(arrived)' /\ Answers(arrived)' = {}
  BY <1>3, <1>4 DEF AnswersRequest, Answers
<1>7. ErrorsAreTrue'
  <2>1. \A r \in Request : sent[r] \subseteq sent'[r]
    BY <1>1, <1>2
  <2>2. ErrorsAreTrue
    BY DEF AnsweredAlone
  <2> QED
    BY <1>4, <2>1, <2>2 DEF ErrorsAreTrue
<1>8. \A r \in Request : r > request' => sent'[r] = {}
  BY <1>1, <1>2, <1>4 DEF AnsweredAlone, Request
<1>9. sent'[request'] # {}
  BY <1>1, <1>2, <1>4
<1> QED
  BY <1>5, <1>6, <1>7, <1>8, <1>9 DEF AnsweredAlone

LEMMA ArriveAlone ==
  ASSUME PipeTypeOK, Hearing, AnsweredAlone, NEW k \in 1 .. Len(stdout), Arrive(k)
  PROVE  AnsweredAlone'
<1> DEFINE t == SubSeq(stdout, 1, k)
           u == SubSeq(stdout, k + 1, Len(stdout))
<1>1. /\ stdout \in Seq(Item) /\ Len(stdout) \in Nat /\ k \in 0 .. Len(stdout)
      /\ t \in Seq(Item)
  <2>1. stdout \in Seq(Item) /\ Len(stdout) \in Nat
    BY LenProperties DEF PipeTypeOK
  <2>2. k \in 0 .. Len(stdout)
    BY <2>1
  <2> QED
    BY <2>1, <2>2, Cut
<1>2. /\ stdout' = u /\ arrived' = arrived \o t /\ proxy'.reading = proxy.listening
      /\ ~proxy.reading
      /\ UNCHANGED <<doing, request, outcome, sent>>
  BY DEF Arrive, PipeTypeOK
<1>3. proxy'.reading => arrived' = t
  BY <1>1, <1>2, ConcatEmptySeq DEF Hearing
<1>4. /\ \A i \in Answers(t) : i \in Answers(stdout) /\ i <= k /\ t[i] = stdout[i]
      /\ \A i \in Answers(u) : i > 0 /\ i + k \in Answers(stdout) /\ u[i] = stdout[i + k]
      /\ \A i \in Answers(u) : i \in Nat
  <2>1. \A i \in Answers(u) : i \in Nat
    BY <1>1, Cut DEF Answers
  <2> QED
    BY <1>1, <2>1, AnswersCut
<1>5. AnswersRequest(stdout)
  BY DEF AnsweredAlone
<1> HIDE DEF t, u
<1>6. AnswersRequest(t) /\ AnswersRequest(u)
  <2>1. AnswersRequest(t)
    BY <1>4, <1>5 DEF AnswersRequest
  <2>2. ASSUME NEW i \in Answers(u), NEW j \in Answers(u)
        PROVE  u[i].what \in sent[request] /\ outcome[request] = <<>> /\ j = i
    <3>1. i + k \in Answers(stdout) /\ j + k \in Answers(stdout) /\ u[i] = stdout[i + k]
      BY <1>4
    <3>2. stdout[i + k].what \in sent[request] /\ outcome[request] = <<>> /\ j + k = i + k
      BY <1>5, <3>1 DEF AnswersRequest
    <3>3. i \in Nat /\ j \in Nat /\ k \in Nat
      BY <1>1, <1>4
    <3> QED
      BY <3>1, <3>2, <3>3
  <2> QED
    BY <2>1, <2>2 DEF AnswersRequest
<1>7. Answers(t) = {} \/ Answers(u) = {}
  <2> SUFFICES ASSUME NEW i \in Answers(t), NEW j \in Answers(u) PROVE FALSE
    OBVIOUS
  <2>1. i \in Answers(stdout) /\ j + k \in Answers(stdout) /\ i <= k /\ j > 0 /\ j \in Nat
    BY <1>4
  <2>2. i = j + k
    BY <1>5, <2>1 DEF AnswersRequest
  <2>3. k \in Nat
    BY <1>1
  <2> QED
    BY <2>1, <2>2, <2>3
<1>8. AnswersRequest(stdout)' /\ (proxy'.reading => AnswersRequest(arrived)')
      /\ (proxy'.reading => Answers(stdout)' = {} \/ Answers(arrived)' = {})
  BY <1>2, <1>3, <1>6, <1>7 DEF AnswersRequest, Answers
<1>9. ErrorsAreTrue'
  BY <1>2 DEF AnsweredAlone, ErrorsAreTrue
<1> QED
  BY <1>2, <1>8, <1>9 DEF AnsweredAlone

LEMMA ReadAlone ==
  ASSUME PipeTypeOK, Hearing, InOrder, AnsweredAlone, OnReadStandardOutput
  PROVE  AnsweredAlone'
<1> DEFINE u == SubSeq(arrived, 3, Len(arrived))
<1>1. /\ ReadResult \/ ReadFirstPage \/ ReadError \/ ReadSignal
      /\ arrived \in Seq(Item) /\ Len(arrived) \in Nat /\ Len(arrived) >= 2
      /\ Head(arrived) = arrived[1] /\ DOMAIN arrived = 1 .. Len(arrived)
  BY ReadsWhole, LenProperties
<1>2. proxy.reading /\ UNCHANGED <<doing, stdout, request, sent>>
  BY <1>1 DEF ReadResult, ReadFirstPage, ReadError, ReadSignal, Reads
<1>3. AnswersRequest(arrived) /\ (Answers(stdout) = {} \/ Answers(arrived) = {})
      /\ AnswersRequest(stdout)
  BY <1>2 DEF AnsweredAlone
<1>4. \A i \in Answers(u) : i \in Nat /\ i > 0 /\ i + 2 \in Answers(arrived) /\ u[i] = arrived[i + 2]
  <2>1. 2 \in 0 .. Len(arrived) /\ u = SubSeq(arrived, 2 + 1, Len(arrived))
    BY <1>1
  <2>2. \A i \in Answers(SubSeq(arrived, 2 + 1, Len(arrived))) :
          i > 0 /\ i + 2 \in Answers(arrived)
          /\ SubSeq(arrived, 2 + 1, Len(arrived))[i] = arrived[i + 2]
    BY <1>1, <2>1, AnswersCut
  <2>3. \A i \in Answers(SubSeq(arrived, 2 + 1, Len(arrived))) : i \in Nat
    BY <1>1, <2>1, Cut DEF Answers
  <2> QED
    BY <2>1, <2>2, <2>3
<1> HIDE DEF u
<1>5. CASE ReadFirstPage
  <2>1. ~proxy'.reading /\ UNCHANGED outcome
    BY <1>5 DEF ReadFirstPage, PipeTypeOK
  <2>2. ErrorsAreTrue'
    BY <1>2, <2>1 DEF AnsweredAlone, ErrorsAreTrue
  <2> QED
    BY <1>2, <2>1, <2>2 DEF AnsweredAlone, AnswersRequest, Answers
<1>6. CASE ReadSignal
  <2>1. arrived' = u /\ UNCHANGED outcome
    BY <1>6 DEF ReadSignal, Handled, MessageItems, u
  <2>2. AnswersRequest(u)
    <3> SUFFICES ASSUME NEW i \in Answers(u), NEW j \in Answers(u)
                 PROVE  u[i].what \in sent[request] /\ outcome[request] = <<>> /\ j = i
      BY DEF AnswersRequest
    <3>1. i + 2 \in Answers(arrived) /\ j + 2 \in Answers(arrived) /\ u[i] = arrived[i + 2]
          /\ i \in Nat /\ j \in Nat
      BY <1>4
    <3>2. arrived[i + 2].what \in sent[request] /\ outcome[request] = <<>> /\ j + 2 = i + 2
      BY <1>3, <3>1 DEF AnswersRequest
    <3> QED
      BY <3>1, <3>2
  <2>3. Answers(stdout) = {} \/ Answers(u) = {}
    BY <1>3, <1>4
  <2>4. ErrorsAreTrue'
    BY <1>2, <2>1 DEF AnsweredAlone, ErrorsAreTrue
  <2>5. AnswersRequest(stdout)' /\ AnswersRequest(arrived)'
        /\ (Answers(stdout)' = {} \/ Answers(arrived)' = {})
    BY <1>2, <1>3, <2>1, <2>2, <2>3 DEF AnswersRequest, Answers
  <2> QED
    BY <1>2, <2>1, <2>4, <2>5 DEF AnsweredAlone
<1>7. CASE ReadResult \/ ReadError
  <2> DEFINE kind == arrived[1].what
  <2>1. /\ arrived' = u /\ kind \in {"result", "error"} /\ TellFirst(kind)
    BY <1>1, <1>7 DEF ReadResult, ReadError, Reads, Handled, MessageItems, u
  <2>2. 1 \in Answers(arrived)
    BY <1>1, <2>1 DEF Answers
  <2>3. /\ kind \in sent[request] /\ outcome[request] = <<>> /\ Answers(stdout) = {}
        /\ \A j \in Answers(arrived) : j = 1
    BY <1>3, <2>2 DEF AnswersRequest
  <2>4. Answers(u) = {}
    <3> SUFFICES ASSUME NEW i \in Answers(u) PROVE FALSE
      OBVIOUS
    <3>1. i \in Nat /\ i > 0 /\ i + 2 = 1
      BY <1>4, <2>3
    <3> QED
      BY <3>1
  <2>5. \A r \in Request : outcome'[r] = outcome[r] \/ (r = request /\ outcome'[r] = <<kind>>)
    <3>1. outcome' = outcome \/ outcome' = [outcome EXCEPT ![request] = Append(@, kind)]
      BY <2>1 DEF TellFirst, Told
    <3>2. Append(outcome[request], kind) = <<kind>>
      BY <2>3
    <3>3. outcome \in [Request -> Seq({"result", "error", "refused"})]
      BY DEF PipeTypeOK
    <3> QED
      BY <3>1, <3>2, <3>3
  <2>6. ErrorsAreTrue'
    <3> SUFFICES ASSUME NEW r \in Request, "error" \in Range(outcome'[r])
                 PROVE  sent[r] \cap {"error", "end"} # {}
      BY <1>2 DEF ErrorsAreTrue
    <3>1. CASE outcome'[r] = outcome[r]
      BY <3>1 DEF AnsweredAlone, ErrorsAreTrue
    <3>2. CASE r = request /\ outcome'[r] = <<kind>>
      <4>1. kind = "error"
        BY <3>2, OneTold
      <4> QED
        BY <2>3, <3>2, <4>1
    <3> QED
      BY <2>5, <3>1, <3>2
  <2>7. AnswersRequest(stdout)' /\ AnswersRequest(arrived)' /\ Answers(stdout)' = {}
    BY <1>2, <2>1, <2>3, <2>4 DEF AnswersRequest, Answers
  <2> HIDE DEF kind
  <2> QED
    BY <1>2, <2>3, <2>6, <2>7 DEF AnsweredAlone
<1> QED
  BY <1>1, <1>5, <1>6, <1>7

LEMMA AloneNext ==
  ASSUME PipeTypeOK, Hearing, InOrder, AnsweredAlone, Without({"twice"}), PipeNext
  PROVE  AnsweredAlone'
<1>0. /\ request \in Nat /\ request \in 0 .. MaxRequests /\ MaxRequests \in Nat
      /\ outcome \in [Request -> Seq({"result", "error", "refused"})]
      /\ sent \in [Request -> SUBSET {"result", "error", "end"}]
      /\ proxy \in [processing : BOOLEAN, obtained : BOOLEAN, listening : BOOLEAN,
                     reading : BOOLEAN, missing : 0 .. MaxPages]
      /\ stdout \in Seq(Item) /\ Request = 1 .. MaxRequests
  BY ItemFacts DEF PipeTypeOK, Request
<1>1. ErrorsAreTrue /\ AnswersRequest(stdout) /\ \A r \in Request : r > request => sent[r] = {}
  BY DEF AnsweredAlone
<1>2. CASE Process
  <2>1. /\ request' = request + 1 /\ request' \in Request /\ ~proxy'.reading
        /\ UNCHANGED <<stdout, outcome, sent>> /\ (request > 0 => outcome[request] # <<>>)
    BY <1>0, <1>2 DEF Process, MayProcess
  <2>2. Answers(stdout) = {}
    <3>1. CASE request > 0
      BY <1>1, <2>1, <3>1 DEF AnswersRequest
    <3>2. CASE request = 0
      <4>1. stdout = <<>>
        BY <3>2 DEF InOrder, Quiet
      <4> QED
        BY <4>1, EmptyPipe
    <3> QED
      BY <1>0, <3>1, <3>2
  <2>3. AnswersRequest(stdout)'
    BY <2>1, <2>2 DEF AnswersRequest, Answers
  <2>4. outcome'[request'] = <<>>
    BY <1>0, <2>1 DEF InOrder
  <2>5. ErrorsAreTrue'
    BY <1>1, <2>1 DEF ErrorsAreTrue
  <2>6. \A r \in Request : r > request' => sent'[r] = {}
    BY <1>0, <1>1, <2>1
  <2> QED
    BY <2>1, <2>3, <2>4, <2>5, <2>6 DEF AnsweredAlone
<1>3. CASE ProcessRestarting
  <2>1. /\ request' = request + 1 /\ request' \in Request /\ stdout' = <<>>
        /\ UNCHANGED sent /\ child = "ended"
    BY <1>0, <1>3 DEF ProcessRestarting, MayProcess
  <2>2. AnswersRequest(stdout)'
    BY <2>1, EmptyPipe DEF AnswersRequest, Answers
  <2>3. ~proxy'.reading
    <3>1. ~proxy.reading
      BY <2>1 DEF InOrder, Quiet
    <3>2. proxy' = [proxy EXCEPT !.missing = 0] \/
          proxy' = [proxy EXCEPT !.processing = TRUE, !.obtained = FALSE, !.missing = 0]
      BY <1>3 DEF ProcessRestarting
    <3> QED
      BY <1>0, <3>1, <3>2
  <2>4. outcome[request'] = <<>>
    BY <1>0, <2>1 DEF InOrder
  <2>5. \/ outcome' = [outcome EXCEPT ![request'] = <<"refused">>] /\ doing' = 0
        \/ outcome' = outcome
    BY <1>3, <2>1 DEF ProcessRestarting
  <2>6. ErrorsAreTrue'
    <3> SUFFICES ASSUME NEW r \in Request, "error" \in Range(outcome'[r])
                 PROVE  "error" \in Range(outcome[r])
      BY <1>1, <2>1 DEF ErrorsAreTrue
    <3>1. outcome'[r] # <<"refused">>
      <4>1. Range(<<"refused">>) = {"refused"}
        BY OneTold
      <4> QED
        BY <4>1
    <3> QED
      BY <1>0, <2>5, <3>1
  <2>7. \A r \in Request : r > request' => sent'[r] = {}
    BY <1>0, <1>1, <2>1
  <2> QED
    BY <2>2, <2>3, <2>4, <2>5, <2>6, <2>7 DEF AnsweredAlone
<1>4. ASSUME NEW pages \in 1 .. MaxPages, Result(pages)
      PROVE  AnsweredAlone'
  <2> DEFINE d == <<[what |-> "result", pages |-> pages]>> \o Pages(pages)
  <2>1. stdout' = stdout \o d /\ Sending /\ Answering("result")
    BY <1>4, ConcatAssociative DEF Result, SendData
  <2>2. d \in Seq(Item) /\ Answers(d) \subseteq {1} /\ d[1].what = "result"
    BY DataFacts
  <2> HIDE DEF d
  <2> QED
    BY <2>1, <2>2, SendAlone
<1>5. CASE Error
  <2> DEFINE m == <<[what |-> "error", pages |-> 0], [what |-> "message", pages |-> 0]>>
  <2>1. m \in Seq(Item) /\ Answers(m) \subseteq {1} /\ m[1].what = "error"
    BY MessageFacts
  <2>2. stdout' = stdout \o m /\ Sending /\ Answering("error")
    BY <1>5 DEF Error, SendMessage
  <2> HIDE DEF m
  <2> QED
    BY <2>1, <2>2, SendAlone
<1>6. CASE StatusChanged
  <2> DEFINE m == <<[what |-> "signal", pages |-> 0], [what |-> "message", pages |-> 0]>>
  <2>1. m \in Seq(Item) /\ Answers(m) = {}
    BY MessageFacts
  <2>2. stdout' = stdout \o m /\ UNCHANGED <<child, doing, arrived, proxy, request, outcome, sent>>
    BY <1>6 DEF StatusChanged, SendMessage, Sending
  <2> HIDE DEF m
  <2>3. \A i \in Answers(stdout') : i \in Answers(stdout) /\ stdout'[i] = stdout[i]
    <3> SUFFICES ASSUME NEW i \in Answers(stdout \o m)
                 PROVE  i \in Answers(stdout) /\ (stdout \o m)[i] = stdout[i]
      BY <2>2
    <3>1. stdout \in Seq(Item)
      BY <1>0
    <3>2. \/ i \in Answers(stdout) /\ (stdout \o m)[i] = stdout[i]
          \/ i - Len(stdout) \in Answers(m)
      BY <2>1, <3>1, AnswersJoined
    <3> QED
      BY <2>1, <3>2
  <2>4. AnswersRequest(stdout)'
    BY <1>1, <2>2, <2>3 DEF AnswersRequest
  <2>5. ErrorsAreTrue'
    BY <1>1, <2>2 DEF ErrorsAreTrue
  <2>6. proxy'.reading => AnswersRequest(arrived)'
                          /\ (Answers(stdout)' = {} \/ Answers(arrived)' = {})
    <3> SUFFICES ASSUME proxy.reading
                 PROVE  AnswersRequest(arrived)' /\ (Answers(stdout') = {} \/ Answers(arrived') = {})
      BY <2>2 DEF Answers
    <3>1. AnswersRequest(arrived) /\ (Answers(stdout) = {} \/ Answers(arrived) = {})
      BY DEF AnsweredAlone
    <3> QED
      BY <2>2, <2>3, <3>1 DEF AnswersRequest
  <2> QED
    BY <2>2, <2>4, <2>5, <2>6 DEF AnsweredAlone
<1>7. ASSUME NEW k \in 1 .. Len(stdout), Arrive(k)
      PROVE  AnsweredAlone'
  BY <1>7, ArriveAlone
<1>8. CASE OnReadStandardOutput
  BY <1>8, ReadAlone
<1>9. CASE OnExit
  <2>1. /\ doing' = 0 /\ stdout = <<>> /\ ~proxy.reading
        /\ proxy' = [proxy EXCEPT !.processing = FALSE]
        /\ UNCHANGED <<stdout, arrived, request, sends>>
        /\ IF proxy.processing
             THEN Told("error") /\ sent' = [sent EXCEPT ![request] = @ \cup {"end"}]
             ELSE UNCHANGED <<outcome, sent>>
    BY <1>9 DEF OnExit
  <2>2. ~proxy'.reading /\ AnswersRequest(stdout)'
    BY <1>0, <2>1, EmptyPipe DEF AnswersRequest, Answers
  <2>3. ErrorsAreTrue' /\ \A r \in Request : r > request => sent'[r] = {}
    <3>1. CASE proxy.processing
      <4>1. request \in Request
        BY <1>0, <3>1 DEF InOrder
      <4>2. /\ sent'[request] = sent[request] \cup {"end"}
            /\ \A r \in Request : r # request => sent'[r] = sent[r] /\ outcome'[r] = outcome[r]
        BY <1>0, <2>1, <3>1, <4>1 DEF Told
      <4>3. \A r \in Request : r > request => sent'[r] = {}
        <5>1. \A r \in Request : r > request => r # request
          BY <4>1 DEF Request
        <5> QED
          BY <1>1, <4>2, <5>1
      <4>4. ErrorsAreTrue'
        BY <1>1, <4>2 DEF ErrorsAreTrue
      <4> QED
        BY <4>3, <4>4
    <3>2. CASE ~proxy.processing
      BY <1>1, <2>1, <3>2 DEF ErrorsAreTrue
    <3> QED
      BY <3>1, <3>2
  <2> QED
    BY <2>1, <2>2, <2>3 DEF AnsweredAlone
<1> QED
  BY <1>2, <1>3, <1>4, <1>5, <1>6, <1>7, <1>8, <1>9 DEF PipeNext

-----------------------------------------------------------------------------
(* The theorem *)

LEMMA PipeInitInv == PipeInit => PipeIInv
<1> SUFFICES ASSUME PipeInit PROVE PipeIInv
  OBVIOUS
<1>1. /\ interference \in Interferences /\ child = "running" /\ doing = 0 /\ request = 0
      /\ stdout = <<>> /\ arrived = <<>> /\ sends = 0
      /\ proxy = [processing |-> FALSE, obtained |-> FALSE, listening |-> TRUE,
                  reading |-> FALSE, missing |-> 0]
      /\ outcome = [r \in Request |-> <<>>] /\ sent = [r \in Request |-> {}]
  BY DEF PipeInit
<1>2. PipeTypeOK
  <2>1. outcome \in [Request -> Seq({"result", "error", "refused"})]
    <3>1. <<>> \in Seq({"result", "error", "refused"})
      OBVIOUS
    <3> QED
      BY <1>1, <3>1
  <2>2. 0 \in 0 .. MaxPages /\ 0 \in 0 .. MaxRequests /\ 0 \in 0 .. MaxSends /\ 0 \in 0 .. 0
    BY ItemFacts
  <2> QED
    BY <1>1, <2>1, <2>2, EmptyPipe DEF PipeTypeOK
<1>3. Hearing
  BY <1>1, EmptyPipe DEF Hearing
<1>4. ToldOnce
  <2>1. Len(<<>>) <= 1
    OBVIOUS
  <2> QED
    BY <1>1, <2>1 DEF ToldOnce
<1>5. InOrder
  BY <1>1, <1>4, EmptyPipe DEF InOrder, Quiet
<1>6. ErrorsAreTrue
  BY <1>1, OneTold DEF ErrorsAreTrue
<1>7. AnsweredAlone
  BY <1>1, <1>6, EmptyPipe DEF AnsweredAlone, AnswersRequest
<1> QED
  BY <1>2, <1>3, <1>5, <1>7 DEF PipeIInv

LEMMA PipeNextInv == PipeIInv /\ [PipeNext]_pipeVars => PipeIInv'
<1> SUFFICES ASSUME PipeIInv, [PipeNext]_pipeVars PROVE PipeIInv'
  OBVIOUS
<1>1. CASE PipeNext
  <2>1. UNCHANGED interference
    BY <1>1 DEF PipeNext
  <2>2. Without({"torn"})' = Without({"torn"})
        /\ Without({"torn", "twice"})' = Without({"torn", "twice"})
    BY <2>1 DEF Without
  <2>3. PipeTypeOK' /\ Hearing'
    BY <1>1, TypesNext DEF PipeIInv
  <2>4. Without({"torn"}) => InOrder'
    BY <1>1, OrderNext DEF PipeIInv
  <2>5. Without({"torn", "twice"}) => AnsweredAlone'
    <3>1. Without({"torn", "twice"}) => Without({"torn"}) /\ Without({"twice"})
      BY DEF Without
    <3> QED
      BY <1>1, <3>1, AloneNext DEF PipeIInv
  <2> QED
    BY <2>2, <2>3, <2>4, <2>5 DEF PipeIInv
<1>2. CASE UNCHANGED pipeVars
  BY <1>2 DEF pipeVars, PipeIInv, PipeTypeOK, Hearing, Without, OfOnePage, InOrder, Quiet, Whole,
              ToldOnce, AnsweredAlone, AnswersRequest, Answers, ErrorsAreTrue
<1> QED
  BY <1>1, <1>2

LEMMA PipeInvIsTrue == PipeIInv => PipeInv
<1> SUFFICES ASSUME PipeIInv PROVE PipeInv
  OBVIOUS
<1>1. PipeTypeOK /\ (Without({"big"}) => NeverDeaf)
  BY DEF PipeIInv, Hearing, NeverDeaf
<1>2. ASSUME Without({"torn"}) PROVE InStep /\ ToldOnce
  <2>1. InOrder
    BY <1>2 DEF PipeIInv
  <2>2. ASSUME proxy.reading PROVE Head(arrived).what \in Heads
    <3>1. Whole(arrived) /\ arrived # <<>> /\ arrived \in Seq(Item)
      BY <1>1, <2>1, <2>2 DEF InOrder, PipeTypeOK
    <3>2. Head(arrived) = arrived[1]
      BY <3>1, HeadTailProperties, TailIsRemoveAt
    <3> QED
      BY <3>1, <3>2 DEF Whole
  <2> QED
    BY <2>1, <2>2 DEF InStep, InOrder
<1>3. Without({"torn", "twice"}) => ErrorsAreTrue
  BY DEF PipeIInv, AnsweredAlone
<1> QED
  BY <1>1, <1>2, <1>3 DEF PipeInv

\* Whatever interferes, the answers of a plug-in are read in step, told once and truly, and
\* heard, under the conditions that PipeInv gives for each (BlobIOHandler and
\* onReadStandardOutput()).
THEOREM AnswersAreHeard == PipeSpec => []PipeInv
<1>1. PipeInit => PipeIInv
  BY PipeInitInv
<1>2. PipeIInv /\ [PipeNext]_pipeVars => PipeIInv'
  BY PipeNextInv
<1>3. PipeIInv => PipeInv
  BY PipeInvIsTrue
<1> QED
  BY <1>1, <1>2, <1>3, PTL DEF PipeSpec

-----------------------------------------------------------------------------
(* The inductive invariant of DaemonLife *)

ObjectType == [status : {"none", "live", "doomed"}, kind : Kind, listed : BOOLEAN,
               autoDestruct : BOOLEAN, busy : BOOLEAN, age : 0 .. MaxAge]
TimersType == [made : BOOLEAN, interval : Nat, dispose : Nat \cup {Off}, notify : Nat \cup {Off}]

\* The objects and the timers as they are at a check: what is not old enough to be disposed
\* of will be when the timer fires.
Checked(obj, t) ==
  /\ obj \in [Object -> ObjectType] /\ t \in TimersType
  /\ t.dispose \in 0 .. t.interval \cup {Off}
  /\ t.notify \in 0 .. DaemonTimeout \cup {Off}
  /\ t.notify # Off \/ t.dispose # Off => t.made
  /\ t.notify # Off => Listed(obj) = {}
  /\ \A o \in Object :
       /\ obj[o].busy = ~obj[o].autoDestruct
       /\ obj[o].status = "live" => obj[o].listed
       /\ t.made /\ obj[o].status = "live" =>
            /\ t.interval > MaxInactivity(obj[o].kind)
            /\ obj[o].autoDestruct =>
                 \/ obj[o].age > MaxInactivity(obj[o].kind)
                 \/ t.dispose # Off /\ obj[o].age + t.dispose > MaxInactivity(obj[o].kind)

\* As they are at any other time, there is another check to come.
Kept(obj, t) ==
  /\ Checked(obj, t)
  /\ \A o \in Object : t.made /\ obj[o].status = "live" /\ obj[o].autoDestruct => t.dispose # Off

\* What is live and busy stays.
Stay(obj, new) ==
  \A o \in Object : obj[o].status = "live" /\ obj[o].busy =>
                     new[o].status = "live" /\ new[o].busy

\* There are objects and timers only while a daemon runs, whose socket pair it is.
OneDaemon ==
  /\ \A i \in Instance : daemon[i] = "running" <=> sigFd.of = i
  /\ sigFd.of = 0 => timers = NoTimers /\ \A o \in Object : object[o] = NoObject
  /\ daemon[1] = "new" => sigFd.of = 0 /\ daemon[2] = "none"
  /\ daemon[2] # "none" => hungUp
  /\ \A k \in DOMAIN sigFd.pipe : sigFd.pipe[k] = "SIGHUP" =>
       /\ hungUp /\ daemon[2] = "none"
       /\ \A j \in DOMAIN sigFd.pipe : sigFd.pipe[j] = "SIGHUP" => j = k

\* Events are posted for the one daemon that runs; one that is to be made waits for its end.
Ordered(events, of, instances) ==
  \A k \in DOMAIN events :
    /\ events[k].name = "delete" => of # 0 /\ events[k].of = of
    /\ events[k].name = "init" =>
         /\ events[k].of # 0 /\ instances[events[k].of] = "new"
         /\ of # 0 => \E j \in DOMAIN events : j < k /\ events[j].name = "delete"
    /\ \A j \in DOMAIN events :
         events[j].name = events[k].name /\ events[j].name # "quit" => j = k

LifeIInv ==
  /\ LifeTypeOK
  /\ Kept(object, timers)
  /\ OneDaemon
  /\ Ordered(posted, sigFd.of, daemon)

-----------------------------------------------------------------------------
(* The constants *)

LEMMA LifeFacts ==
  /\ Off \notin Nat /\ Off \notin Int /\ MaxCalls \in Nat /\ MaxSignals \in Nat
  /\ DaemonTimeout \in Nat
  /\ \A k \in Kind : MaxInactivity(k) \in Nat /\ MaxInactivity(k) < MaxAge
  /\ MaxAge \in Nat
  /\ NoObject \in ObjectType
<1>1. DaemonTimeout \in Nat /\ \A k \in Kind : MaxInactivity(k) \in Nat
  BY DaemonLifeAssumption DEF DaemonTimeout, MaxInactivity, Timeout, Kind
<1>2. MaxAge \in Nat /\ \A k \in Kind : MaxInactivity(k) < MaxAge
  <2> DEFINE ages == {MaxInactivity(k) : k \in Kind}
             n == CHOOSE n \in ages : \A k \in Kind : MaxInactivity(k) <= n
  <2>1. \E m \in ages : \A k \in Kind : MaxInactivity(k) <= m
    <3> DEFINE a == MaxInactivity("Identity")
               b == MaxInactivity("AuthSession")
    <3>1. a \in ages /\ b \in ages /\ a \in Nat /\ b \in Nat
      BY <1>1 DEF Kind
    <3>2. \A k \in Kind : MaxInactivity(k) = a \/ MaxInactivity(k) = b
      BY DEF Kind
    <3> HIDE DEF a, b, ages
    <3> QED
      BY <3>1, <3>2
  <2>2. n \in ages /\ \A k \in Kind : MaxInactivity(k) <= n
    <3> HIDE DEF ages
    <3> QED
      BY <2>1
  <2>3. n \in Nat
    BY <1>1, <2>2
  <2>4. MaxAge = 1 + n
    BY DEF MaxAge
  <2> HIDE DEF n
  <2> QED
    BY <1>1, <2>2, <2>3, <2>4
<1>3. NoObject \in ObjectType
  BY <1>2 DEF NoObject, ObjectType, Kind
<1> QED
  BY <1>1, <1>2, <1>3, DaemonLifeAssumption

LEMMA ObjectFacts ==
  ASSUME NEW obj, NEW t, Checked(obj, t), NEW o \in Object
  PROVE  /\ obj[o] \in ObjectType /\ obj[o].kind \in Kind /\ obj[o].age \in 0 .. MaxAge
         /\ MaxInactivity(obj[o].kind) \in Nat /\ t.interval \in Nat
         /\ t.dispose \in Nat \cup {Off} /\ t.notify \in Nat \cup {Off}
<1>1. obj[o] \in ObjectType /\ t \in TimersType
  BY DEF Checked
<1> QED
  BY <1>1, LifeFacts DEF ObjectType, TimersType

-----------------------------------------------------------------------------
(* The objects and the timers *)

\* The timers are set anew,
LEMMA TimersSet ==
  ASSUME NEW obj, NEW t, Kept(obj, t), NEW n \in Nat, t.made => n >= t.interval,
         NEW u, u = IF t.made THEN [t EXCEPT !.interval = n, !.notify = Off, !.dispose = n] ELSE t
  PROVE  Kept(obj, u)
<1>1. CASE ~t.made
  BY <1>1
<1>2. CASE t.made
  <2>1. u \in TimersType /\ u.made = t.made /\ u.interval = n /\ u.notify = Off /\ u.dispose = n
    BY <1>2, LifeFacts DEF Kept, Checked, TimersType
  <2>2. n \in 0 .. n /\ n # Off
    BY LifeFacts
  <2>3. ASSUME NEW o \in Object, obj[o].status = "live"
        PROVE  /\ n > MaxInactivity(obj[o].kind)
               /\ obj[o].age + n > MaxInactivity(obj[o].kind)
    <3>1. t.interval > MaxInactivity(obj[o].kind) /\ n >= t.interval
      BY <1>2, <2>3 DEF Kept, Checked
    <3>2. /\ t.interval \in Nat /\ MaxInactivity(obj[o].kind) \in Nat /\ obj[o].age \in Nat
      BY ObjectFacts, LifeFacts DEF Kept
    <3> QED
      BY <3>1, <3>2
  <2> QED
    BY <1>2, <2>1, <2>2, <2>3 DEF Kept, Checked
<1> QED
  BY <1>1, <1>2

\* and an object is one that has just been used.
LEMMA ObjectSet ==
  ASSUME NEW obj, NEW t, Kept(obj, t), NEW n \in Nat, t.made => n >= t.interval,
         NEW u, u = IF t.made THEN [t EXCEPT !.interval = n, !.notify = Off, !.dispose = n] ELSE t,
         NEW o \in Object, NEW x \in ObjectType, x.age = 0, x.busy = ~x.autoDestruct,
         x.status = "live" => x.listed /\ (t.made => n > MaxInactivity(x.kind))
  PROVE  Kept([obj EXCEPT ![o] = x], u)
<1>1. Kept(obj, u)
  BY TimersSet
<1> DEFINE new == [obj EXCEPT ![o] = x]
<1>2. /\ new \in [Object -> ObjectType] /\ new[o] = x
      /\ \A p \in Object : p # o => new[p] = obj[p]
  BY DEF Kept, Checked
<1>3. u.notify = Off
  BY DEF Kept, Checked, TimersType
<1>4. u.made => u.interval = n /\ u.dispose = n /\ t.made
  BY DEF Kept, Checked, TimersType
<1>5. u.made /\ x.status = "live" => x.age + n > MaxInactivity(x.kind) /\ n # Off
  BY <1>4, LifeFacts
<1> HIDE DEF new
<1>6. ASSUME NEW p \in Object
      PROVE  /\ new[p].busy = ~new[p].autoDestruct
             /\ new[p].status = "live" => new[p].listed
             /\ u.made /\ new[p].status = "live" =>
                  /\ u.interval > MaxInactivity(new[p].kind)
                  /\ new[p].autoDestruct =>
                       \/ new[p].age > MaxInactivity(new[p].kind)
                       \/ u.dispose # Off /\ new[p].age + u.dispose > MaxInactivity(new[p].kind)
             /\ u.made /\ new[p].status = "live" /\ new[p].autoDestruct => u.dispose # Off
  <2>1. CASE p = o
    BY <1>2, <1>4, <1>5, <2>1
  <2>2. CASE p # o
    BY <1>1, <1>2, <2>2 DEF Kept, Checked
  <2> QED
    BY <2>1, <2>2
<1> QED
  BY <1>1, <1>2, <1>3, <1>6 DEF Kept, Checked, new

LEMMA KeepInUseKeeps ==
  ASSUME NEW obj, NEW t, Kept(obj, t), NEW o \in Object
  PROVE  LET s == KeepInUse([obj |-> obj, t |-> t], o)
         IN  s = [obj |-> s.obj, t |-> s.t] /\ Kept(s.obj, s.t) /\ Stay(obj, s.obj)
<1> DEFINE x == [obj[o] EXCEPT !.age = 0]
           n == t.interval
           u == IF t.made THEN [t EXCEPT !.interval = n, !.notify = Off, !.dispose = n] ELSE t
           s == KeepInUse([obj |-> obj, t |-> t], o)
<1>1. obj[o] \in ObjectType /\ n \in Nat /\ t \in TimersType
  BY ObjectFacts DEF Kept, Checked
<1>2. /\ x \in ObjectType /\ x.age = 0 /\ x.busy = obj[o].busy
      /\ x.autoDestruct = obj[o].autoDestruct
      /\ x.status = obj[o].status /\ x.listed = obj[o].listed /\ x.kind = obj[o].kind
  BY <1>1, LifeFacts DEF ObjectType
<1>3. u = IF t.made THEN [t EXCEPT !.notify = Off, !.dispose = t.interval] ELSE t
  BY <1>1 DEF TimersType
<1>4. s.obj = [obj EXCEPT ![o] = x] /\ s.t = u /\ s = [obj |-> s.obj, t |-> s.t]
  BY <1>3 DEF KeepInUse
<1>5. /\ x.busy = ~x.autoDestruct
      /\ x.status = "live" => x.listed /\ (t.made => n > MaxInactivity(x.kind))
  BY <1>2 DEF Kept, Checked
<1>6. Kept([obj EXCEPT ![o] = x], u)
  <2>1. t.made => n >= t.interval
    BY <1>1
  <2> HIDE DEF x, n
  <2> QED
    BY <1>1, <1>2, <1>5, <2>1, ObjectSet
<1>7. Stay(obj, [obj EXCEPT ![o] = x])
  <2> HIDE DEF x
  <2> QED
    BY <1>2 DEF Stay, Kept, Checked
<1> HIDE DEF x, u, s
<1> QED
  BY <1>4, <1>6, <1>7 DEF s

\* The object that is made, and what becomes of the timers
LEMMA MadeKeeps ==
  ASSUME NEW obj, NEW t, Kept(obj, t), NEW o \in Object, NEW kind \in Kind
  PROVE  LET s == Made([obj |-> obj, t |-> t], o, kind)
         IN  /\ s = [obj |-> s.obj, t |-> s.t] /\ Kept(s.obj, s.t) /\ Kept(obj, s.t)
             /\ s.obj[o] = [NoObject EXCEPT !.status = "live", !.kind = kind, !.listed = TRUE]
             /\ obj[o].status # "live" => Stay(obj, s.obj)
<1> DEFINE new == [NoObject EXCEPT !.status = "live", !.kind = kind, !.listed = TRUE]
           i == Interval(MaxInactivity(kind))
           v == IF t.made /\ i > t.interval THEN [t EXCEPT !.interval = i] ELSE t
           s == Made([obj |-> obj, t |-> t], o, kind)
           n == IF i > t.interval THEN i ELSE t.interval
           u == IF t.made THEN [t EXCEPT !.interval = n, !.notify = Off, !.dispose = n] ELSE t
<1>1. t.interval \in Nat /\ t \in TimersType /\ obj \in [Object -> ObjectType]
  BY DEF Kept, Checked, TimersType
<1>2. i \in Nat /\ i > MaxInactivity(kind) /\ MaxInactivity(kind) \in Nat
  BY LifeFacts DEF Interval, Slack
<1> HIDE DEF i
<1>3. n \in Nat /\ n >= t.interval /\ n > MaxInactivity(kind)
  BY <1>1, <1>2
<1>4. new \in ObjectType /\ new.age = 0 /\ new.busy = FALSE /\ new.autoDestruct = TRUE
      /\ new.status = "live" /\ new.listed = TRUE /\ new.kind = kind
  BY LifeFacts DEF NoObject, ObjectType
<1>5. [new EXCEPT !.age = 0] = new
  <2> HIDE DEF new
  <2> QED
    BY <1>4 DEF ObjectType
<1>6. s.obj = [obj EXCEPT ![o] = new] /\ s = [obj |-> s.obj, t |-> s.t]
      /\ s.t = IF v.made THEN [v EXCEPT !.notify = Off, !.dispose = v.interval] ELSE v
  <2>1. s = KeepInUse([obj |-> [obj EXCEPT ![o] = new], t |-> v], o)
    BY DEF Made, i
  <2>2. [[obj EXCEPT ![o] = new] EXCEPT ![o].age = 0] = [obj EXCEPT ![o] = new]
    <3> HIDE DEF new
    <3> QED
      BY <1>1, <1>4, <1>5
  <2> HIDE DEF s, new, v
  <2> QED
    BY <2>1, <2>2 DEF KeepInUse
<1>7. s.t = u
  <2>1. v.made = t.made
    BY <1>1 DEF TimersType
  <2>2. CASE ~t.made
    BY <1>6, <2>2
  <2>3. CASE t.made
    <3>1. v.interval = n /\ [v EXCEPT !.notify = Off, !.dispose = n]
                               = [t EXCEPT !.interval = n, !.notify = Off, !.dispose = n]
      BY <1>1, <2>3 DEF TimersType
    <3> QED
      BY <1>6, <2>1, <2>3, <3>1
  <2> QED
    BY <2>2, <2>3
<1> HIDE DEF n, new, s
<1>8. Kept([obj EXCEPT ![o] = new], u)
  BY <1>3, <1>4, ObjectSet
<1>9. Kept(obj, u)
  BY <1>3, TimersSet
<1>10. obj[o].status # "live" => Stay(obj, [obj EXCEPT ![o] = new])
  BY <1>1 DEF Stay
<1>11. s.obj[o] = new
  BY <1>1, <1>6
<1> QED
  BY <1>6, <1>7, <1>8, <1>9, <1>10, <1>11 DEF new, s

\* When the check has been made, what is not disposed of is checked again.
LEMMA DestroyUnusedKeeps ==
  ASSUME NEW obj, NEW t, Checked(obj, t)
  PROVE  LET s == DestroyUnused([obj |-> obj, t |-> t])
         IN  /\ s = [obj |-> s.obj, t |-> s.t] /\ Kept(s.obj, s.t)
             /\ Stay(obj, s.obj)
             /\ \A o \in Object : s.obj[o] = obj[o] \/ s.obj[o].status = "doomed"
<1> DEFINE q == [obj |-> obj, t |-> t]
           unused == {o \in Listed(obj) : obj[o].autoDestruct
                                            /\ obj[o].age > MaxInactivity(obj[o].kind)}
           gone(o) == [obj[o] EXCEPT !.status = "doomed", !.listed = FALSE]
           left == [o \in Object |-> IF o \in unused THEN gone(o) ELSE obj[o]]
           s == DestroyUnused(q)
           u == IF Listed(left) = {} /\ t.made THEN [t EXCEPT !.notify = DaemonTimeout] ELSE t
<1>1. obj \in [Object -> ObjectType] /\ t \in TimersType
  BY DEF Checked
<1>2. \A o \in unused : o \in Object /\ obj[o].autoDestruct /\ obj[o].listed
  BY DEF Listed
<1>3. \A o \in unused : ~Declines(q, o)
  BY <1>1, <1>2 DEF Declines, Checked, ObjectType
<1>4. \A o \in unused : [Destroy(q, o).obj[o] EXCEPT !.listed = FALSE] = gone(o)
  <2> SUFFICES ASSUME NEW o \in unused
               PROVE  [Destroy(q, o).obj[o] EXCEPT !.listed = FALSE] = gone(o)
    OBVIOUS
  <2>1. Destroy(q, o) = [q EXCEPT !.obj[o].status = "doomed"] /\ o \in Object
    BY <1>2, <1>3 DEF Destroy
  <2>2. Destroy(q, o).obj[o] = [obj[o] EXCEPT !.status = "doomed"]
    BY <1>1, <2>1
  <2>3. obj[o] \in ObjectType
    BY <1>1, <2>1
  <2> QED
    BY <2>2, <2>3 DEF ObjectType
<1>5. s = [obj |-> left, t |-> u]
  <2>1. ~\E o \in unused : Declines(q, o) /\ t.made
    BY <1>3
  <2>2. [o \in Object |-> IF o \in unused THEN [Destroy(q, o).obj[o] EXCEPT !.listed = FALSE]
                           ELSE obj[o]] = left
    BY <1>4
  <2>3. q.obj = obj /\ q.t = t
    OBVIOUS
  <2> HIDE DEF left, q
  <2> QED
    BY <2>1, <2>2, <2>3 DEF DestroyUnused
<1>6. \A o \in Object : /\ gone(o) \in ObjectType /\ gone(o).status = "doomed" /\ ~gone(o).listed
                        /\ gone(o).busy = obj[o].busy
                        /\ gone(o).autoDestruct = obj[o].autoDestruct
  BY <1>1 DEF ObjectType
<1> HIDE DEF gone
<1>7. left \in [Object -> ObjectType] /\ \A o \in Object :
        \/ left[o] = obj[o] /\ o \notin unused
        \/ left[o] = gone(o) /\ o \in unused
  <2> HIDE DEF unused
  <2>1. \A o \in Object : left[o] = IF o \in unused THEN gone(o) ELSE obj[o]
    OBVIOUS
  <2>2. \A o \in Object : (IF o \in unused THEN gone(o) ELSE obj[o]) \in ObjectType
    BY <1>1, <1>6
  <2>3. left \in [Object -> ObjectType]
    BY <2>2
  <2> HIDE DEF left
  <2> QED
    BY <2>1, <2>3
<1> HIDE DEF left
<1>8. Listed(left) \subseteq Listed(obj)
  BY <1>6, <1>7 DEF Listed
<1>9. /\ u \in TimersType /\ u.made = t.made /\ u.interval = t.interval /\ u.dispose = t.dispose
      /\ u.notify \in {t.notify, DaemonTimeout} /\ (u.notify # t.notify => Listed(left) = {} /\ t.made)
  BY <1>1, LifeFacts DEF TimersType
<1>10. u.notify \in 0 .. DaemonTimeout \cup {Off} /\ (u.notify # Off => Listed(left) = {})
       /\ (u.notify # Off => u.made)
  BY <1>8, <1>9, LifeFacts DEF Checked
<1> HIDE DEF u
<1>11. ASSUME NEW o \in Object
       PROVE  /\ left[o].busy = ~left[o].autoDestruct
              /\ left[o].status = "live" => left[o].listed
              /\ u.made /\ left[o].status = "live" =>
                   /\ u.interval > MaxInactivity(left[o].kind)
                   /\ left[o].autoDestruct =>
                        u.dispose # Off /\ left[o].age + u.dispose > MaxInactivity(left[o].kind)
  <2>1. CASE o \in unused
    BY <1>6, <1>7, <2>1 DEF Checked
  <2>2. CASE o \notin unused
    <3>1. left[o] = obj[o]
      BY <1>7, <2>2
    <3>2. obj[o].status = "live" /\ obj[o].autoDestruct => ~(obj[o].age > MaxInactivity(obj[o].kind))
      BY <2>2 DEF Checked, Listed
    <3> QED
      BY <1>9, <3>1, <3>2 DEF Checked
  <2> QED
    BY <2>1, <2>2
<1>12. Kept(left, u)
  BY <1>7, <1>9, <1>10, <1>11 DEF Kept, Checked
<1>13. \A o \in Object :
         \/ left[o] = obj[o]
         \/ left[o].status = "doomed" /\ obj[o].autoDestruct
  BY <1>2, <1>6, <1>7
<1>14. Stay(obj, left)
  BY <1>13 DEF Stay, Checked
<1> HIDE DEF s
<1> QED
  BY <1>5, <1>12, <1>13, <1>14 DEF s

\* A system without objects
LEMMA NothingKept ==
  ASSUME NEW obj \in [Object -> ObjectType], \A o \in Object : obj[o] = NoObject,
         NEW t \in TimersType, t.dispose = Off, t.notify = Off
  PROVE  Kept(obj, t)
<1>1. NoObject.status = "none" /\ NoObject.busy = FALSE /\ NoObject.autoDestruct = TRUE
  BY DEF NoObject
<1> QED
  BY <1>1 DEF Kept, Checked

LEMMA NoTimersFacts == NoTimers \in TimersType /\ NoTimers.dispose = Off /\ NoTimers.notify = Off
BY DEF NoTimers, TimersType

\* What is done to the objects and the timers by a call, or by the main loop
ObjectsChange ==
  /\ Kept(object, timers)'
  /\ BusyLive

LEMMA Taken ==
  ASSUME NEW s, Kept(s.obj, s.t), Stay(object, s.obj), Take(s)
  PROVE  ObjectsChange
<1>1. object' = s.obj /\ timers' = s.t
  BY DEF Take
<1>2. Kept(object, timers)'
  BY <1>1 DEF Kept, Checked, Listed
<1>3. BusyLive
  BY <1>1 DEF Stay, BusyLive, Live
<1> QED
  BY <1>2, <1>3 DEF ObjectsChange

LEMMA StayTwice ==
  ASSUME NEW a, NEW b, NEW c, Stay(a, b), Stay(b, c)
  PROVE  Stay(a, c)
BY DEF Stay

LEMMA StateKept ==
  ASSUME Kept(object, timers)
  PROVE  /\ State.obj = object /\ State.t = timers /\ Stay(object, object)
         /\ LET s == DestroyUnused(State)
            IN  /\ s = [obj |-> s.obj, t |-> s.t] /\ Kept(s.obj, s.t) /\ Stay(object, s.obj)
                /\ \A o \in Object : s.obj[o] = object[o] \/ s.obj[o].status = "doomed"
BY DestroyUnusedKeeps DEF State, Kept, Stay

\* What is disposed of after a change of the objects and the timers
LEMMA DisposedKeeps ==
  ASSUME NEW q, q = [obj |-> q.obj, t |-> q.t], Kept(q.obj, q.t)
  PROVE  LET s == DestroyUnused(q) IN Kept(s.obj, s.t) /\ Stay(q.obj, s.obj)
<1>1. Checked(q.obj, q.t)
  BY DEF Kept
<1>2. LET s == DestroyUnused([obj |-> q.obj, t |-> q.t])
      IN  /\ s = [obj |-> s.obj, t |-> s.t] /\ Kept(s.obj, s.t)
          /\ Stay(q.obj, s.obj)
          /\ \A o \in Object : s.obj[o] = q.obj[o] \/ s.obj[o].status = "doomed"
  BY <1>1, DestroyUnusedKeeps
<1> QED
  BY <1>2

LEMMA MadeUnused ==
  ASSUME Kept(object, timers), NEW o \in Object, ~Exists(o), NEW kind \in Kind,
         Take(DestroyUnused(Made(State, o, kind)))
  PROVE  ObjectsChange
<1> DEFINE m == Made(State, o, kind)
           s == DestroyUnused(m)
<1>1. m = [obj |-> m.obj, t |-> m.t] /\ Kept(m.obj, m.t) /\ Stay(object, m.obj)
  <2>1. object[o].status # "live" /\ State = [obj |-> object, t |-> timers]
    BY DEF Exists, State
  <2>2. LET r == Made([obj |-> object, t |-> timers], o, kind)
        IN  /\ r = [obj |-> r.obj, t |-> r.t] /\ Kept(r.obj, r.t) /\ Kept(object, r.t)
            /\ r.obj[o] = [NoObject EXCEPT !.status = "live", !.kind = kind, !.listed = TRUE]
            /\ object[o].status # "live" => Stay(object, r.obj)
    <3> HIDE DEF m, s
    <3> QED
      BY MadeKeeps
  <2> QED
    BY <2>1, <2>2
<1> HIDE DEF m
<1>2. Kept(s.obj, s.t) /\ Stay(m.obj, s.obj)
  BY <1>1, DisposedKeeps
<1>3. Take(s)
  BY DEF m
<1> HIDE DEF s
<1> QED
  BY <1>1, <1>2, <1>3, StayTwice, Taken

LEMMA CallsKeep ==
  ASSUME Kept(object, timers), NEW o \in Object,
         \/ GetIdentity(o) \/ GetAuthSession(o)
         \/ GetIdentityUnfound(o) \/ GetAuthSessionUnknown(o)
  PROVE  ObjectsChange
<1> DEFINE d == DestroyUnused(State)
<1>0. d = [obj |-> d.obj, t |-> d.t] /\ Kept(d.obj, d.t) /\ Stay(object, d.obj)
      /\ \A p \in Object : d.obj[p] = object[p] \/ d.obj[p].status = "doomed"
  BY StateKept
<1>00. State = [obj |-> object, t |-> timers]
  BY DEF State
<1>k. "Identity" \in Kind /\ "AuthSession" \in Kind
  BY DEF Kind
<1> HIDE DEF d
<1>1. CASE GetIdentity(o)
  <2>1. CASE ~Exists(o) /\ Take(DestroyUnused(Made(State, o, "Identity")))
    BY <1>k, <2>1, MadeUnused
  <2>2. CASE Take(DestroyUnused(KeepInUse(State, o)))
    <3> DEFINE m == KeepInUse(State, o)
               s == DestroyUnused(m)
    <3>1. m = [obj |-> m.obj, t |-> m.t] /\ Kept(m.obj, m.t) /\ Stay(object, m.obj)
      BY <1>00, KeepInUseKeeps
    <3>2. Take(s)
      BY <2>2
    <3> HIDE DEF m
    <3>3. Kept(s.obj, s.t) /\ Stay(m.obj, s.obj)
      BY <3>1, DisposedKeeps
    <3> HIDE DEF s
    <3> QED
      BY <3>1, <3>2, <3>3, StayTwice, Taken
  <2> QED
    BY <1>1, <2>1, <2>2 DEF GetIdentity
<1>2. CASE GetAuthSession(o)
  <2>1. CASE ~Exists(o) /\ Take(Made(d, o, "AuthSession"))
    <3> DEFINE m == Made(d, o, "AuthSession")
    <3>1. d.obj[o].status # "live"
      BY <1>0, <2>1 DEF Exists
    <3>2. Kept(m.obj, m.t) /\ Stay(d.obj, m.obj)
      BY <1>0, <1>k, <3>1, MadeKeeps
    <3>3. Take(m)
      BY <2>1
    <3> HIDE DEF m
    <3> QED
      BY <1>0, <3>2, <3>3, StayTwice, Taken
  <2>2. CASE Take(KeepInUse(d, o))
    <3> DEFINE m == KeepInUse(d, o)
    <3>1. Kept(m.obj, m.t) /\ Stay(d.obj, m.obj)
      BY <1>0, KeepInUseKeeps
    <3>2. Take(m)
      BY <2>2
    <3> HIDE DEF m
    <3> QED
      BY <1>0, <3>1, <3>2, StayTwice, Taken
  <2> QED
    BY <1>2, <2>1, <2>2 DEF GetAuthSession, d
<1>3. CASE GetIdentityUnfound(o)
  <2> DEFINE m == Made(State, o, "Identity")
             x == [m.obj[o] EXCEPT !.status = "doomed"]
             s == Destroy(m, o)
  <2>1. /\ m = [obj |-> m.obj, t |-> m.t] /\ Kept(m.obj, m.t) /\ Stay(object, m.obj)
        /\ m.obj[o] = [NoObject EXCEPT !.status = "live", !.kind = "Identity", !.listed = TRUE]
    <3>1. object[o].status # "live"
      BY <1>3 DEF GetIdentityUnfound, Exists
    <3>2. LET r == Made([obj |-> object, t |-> timers], o, "Identity")
          IN  /\ r = [obj |-> r.obj, t |-> r.t] /\ Kept(r.obj, r.t) /\ Kept(object, r.t)
              /\ r.obj[o] = [NoObject EXCEPT !.status = "live", !.kind = "Identity", !.listed = TRUE]
              /\ object[o].status # "live" => Stay(object, r.obj)
      <4> HIDE DEF m, x, s
      <4> QED
        BY <1>k, MadeKeeps
    <3> QED
      BY <1>00, <3>1, <3>2
  <2>2. Take(s)
    BY <1>3 DEF GetIdentityUnfound
  <2> HIDE DEF m
  <2>3. m.obj[o].kind = "Identity" /\ m.obj[o].busy = FALSE /\ m.obj[o].autoDestruct = TRUE
        /\ m.obj \in [Object -> ObjectType]
    BY <2>1 DEF NoObject, Kept, Checked
  <2>4. s = [m EXCEPT !.obj[o].status = "doomed"]
    BY <2>3 DEF Destroy, Declines
  <2>5. s.obj = [m.obj EXCEPT ![o] = x] /\ s.t = m.t
    BY <2>1, <2>4
  <2>6. /\ x \in ObjectType /\ x.status = "doomed" /\ x.listed = m.obj[o].listed
        /\ x.busy = FALSE /\ x.autoDestruct = TRUE
    <3>1. m.obj[o] \in ObjectType
      BY <2>3
    <3> QED
      BY <2>3, <3>1 DEF ObjectType
  <2> HIDE DEF x, s
  <2>7. /\ s.obj \in [Object -> ObjectType] /\ s.obj[o] = x
        /\ \A p \in Object : p # o => s.obj[p] = m.obj[p]
    BY <2>3, <2>5, <2>6
  <2>8. Listed(s.obj) \subseteq Listed(m.obj)
    BY <2>6, <2>7 DEF Listed
  <2>9. Checked(s.obj, s.t)
    <3>1. ASSUME NEW p \in Object
          PROVE  /\ s.obj[p].busy = ~s.obj[p].autoDestruct
                 /\ s.obj[p].status = "live" => p # o
      BY <2>1, <2>6, <2>7 DEF Kept, Checked
    <3> QED
      BY <2>1, <2>5, <2>7, <2>8, <3>1 DEF Kept, Checked
  <2>10. Kept(s.obj, s.t)
    BY <2>1, <2>5, <2>6, <2>7, <2>9 DEF Kept
  <2>11. Stay(object, s.obj)
    <3>1. Stay(m.obj, s.obj)
      BY <2>3, <2>7 DEF Stay
    <3> QED
      BY <2>1, <3>1, StayTwice
  <2> QED
    BY <2>2, <2>10, <2>11, Taken
<1>4. CASE GetAuthSessionUnknown(o)
  <2> DEFINE m == Made(d, o, "AuthSession")
             s == [d EXCEPT !.t = m.t]
  <2>1. Kept(d.obj, m.t)
    BY <1>0, <1>k, MadeKeeps
  <2>2. s.obj = d.obj /\ s.t = m.t
    BY <1>0
  <2>3. Take(s)
    BY <1>4 DEF GetAuthSessionUnknown, d
  <2> HIDE DEF s, m
  <2> QED
    BY <1>0, <2>1, <2>2, <2>3, Taken
<1> QED
  BY <1>1, <1>2, <1>3, <1>4

LEMMA AskKeeps ==
  ASSUME Kept(object, timers), Ask \/ AccessReplyFinished
  PROVE  ObjectsChange
<1>1. CASE Ask
  <2> DEFINE d == DestroyUnused(State)
  <2>1. Kept(d.obj, d.t) /\ Stay(object, d.obj)
    BY StateKept
  <2>2. Take(State) \/ Take(d)
    BY <1>1 DEF Ask
  <2> HIDE DEF d
  <2> QED
    BY <2>1, <2>2, StateKept, Taken
<1>2. CASE AccessReplyFinished
  <2>1. CASE UNCHANGED <<object, timers, used>>
    BY <2>1 DEF ObjectsChange, Kept, Checked, Listed, BusyLive, Live
  <2>2. CASE \E p \in Object, kind \in Kind :
               ~Exists(p) /\ Take(DestroyUnused(Made(State, p, kind))) /\ used' = TRUE
    BY <2>2, MadeUnused
  <2> QED
    BY <1>2, <2>1, <2>2 DEF AccessReplyFinished
<1> QED
  BY <1>1, <1>2

LEMMA AutoDestructKeeps ==
  ASSUME Kept(object, timers), NEW o \in Object, Live(o), NEW value \in BOOLEAN,
         NEW busy \in BOOLEAN, busy = ~value,
         LET s == SetAutoDestruct(State, o, value) IN Take([s EXCEPT !.obj[o].busy = busy])
  PROVE  ObjectsChange
<1> DEFINE s == SetAutoDestruct(State, o, value)
           r == [s EXCEPT !.obj[o].busy = busy]
           x == [object[o] EXCEPT !.autoDestruct = value, !.age = 0, !.busy = busy]
           n == timers.interval
           u == IF timers.made THEN [timers EXCEPT !.interval = n, !.notify = Off, !.dispose = n]
                ELSE timers
<1>1. object \in [Object -> ObjectType] /\ timers \in TimersType /\ n \in Nat
      /\ object[o] \in ObjectType
  BY ObjectFacts DEF Kept, Checked
<1>2. s = KeepInUse([obj |-> [object EXCEPT ![o].autoDestruct = value], t |-> timers], o)
  BY DEF SetAutoDestruct, State
<1>3. s = [obj |-> [object EXCEPT ![o] = [object[o] EXCEPT !.autoDestruct = value, !.age = 0]],
           t |-> IF timers.made THEN [timers EXCEPT !.notify = Off, !.dispose = timers.interval]
                 ELSE timers]
  BY <1>1, <1>2 DEF KeepInUse
<1> HIDE DEF s
<1>4. r.obj = [object EXCEPT ![o] = x] /\ r.t = u
  <2>1. r.obj = [object EXCEPT ![o] = x]
    BY <1>1, <1>3
  <2>2. u = IF timers.made THEN [timers EXCEPT !.notify = Off, !.dispose = timers.interval]
            ELSE timers
    BY <1>1 DEF TimersType
  <2>3. r.t = s.t
    BY <1>3
  <2> QED
    BY <1>3, <2>1, <2>2, <2>3
<1>5. /\ x \in ObjectType /\ x.age = 0 /\ x.busy = ~x.autoDestruct
      /\ x.status = "live" /\ x.listed = object[o].listed /\ x.kind = object[o].kind
  <2>1. /\ x \in ObjectType /\ x.age = 0 /\ x.busy = busy /\ x.autoDestruct = value
        /\ x.status = object[o].status /\ x.listed = object[o].listed /\ x.kind = object[o].kind
    <3> DEFINE y == object[o]
    <3>1. y \in ObjectType /\ 0 \in 0 .. MaxAge
      BY <1>1, LifeFacts
    <3> HIDE DEF y
    <3>2. x = [y EXCEPT !.autoDestruct = value, !.age = 0, !.busy = busy]
      BY DEF y
    <3>3. /\ x.status = y.status /\ x.kind = y.kind /\ x.listed = y.listed
          /\ x.autoDestruct = value /\ x.busy = busy /\ x.age = 0
      BY <3>1, <3>2 DEF ObjectType
    <3>4. x \in ObjectType
      BY <3>1, <3>2 DEF ObjectType
    <3> HIDE DEF x
    <3> QED
      BY <3>3, <3>4 DEF y
  <2> HIDE DEF x
  <2> QED
    BY <2>1 DEF Live
<1>6. x.listed /\ (timers.made => n > MaxInactivity(x.kind)) /\ (timers.made => n >= n)
  BY <1>1, <1>5 DEF Kept, Checked, Live
<1>7. Take(r)
  BY DEF s
<1> HIDE DEF x, n, r
<1>8. Kept([object EXCEPT ![o] = x], u)
  BY <1>1, <1>5, <1>6, ObjectSet DEF n
<1>9. object' = [object EXCEPT ![o] = x] /\ timers' = u
  BY <1>4, <1>7 DEF Take
<1>10. Kept(object, timers)'
  BY <1>8, <1>9 DEF Kept, Checked, Listed
<1>11. BusyLive
  BY <1>1, <1>5, <1>9 DEF BusyLive, Live
<1> QED
  BY <1>10, <1>11 DEF ObjectsChange

\* Calls on an object, what it has come to an end, and its deletion
LEMMA UsesKeep ==
  ASSUME Kept(object, timers), NEW o \in Object,
         Begin(o) \/ End(o) \/ Use(o) \/ ChildRemoved(o) \/ DeleteObject(o)
  PROVE  ObjectsChange
<1>1. CASE Begin(o)
  BY <1>1, AutoDestructKeeps DEF Begin
<1>2. CASE End(o)
  BY <1>2, AutoDestructKeeps DEF End
<1>3. CASE Use(o)
  <2> DEFINE m == KeepInUse([obj |-> object, t |-> timers], o)
  <2>1. m = [obj |-> m.obj, t |-> m.t] /\ Kept(m.obj, m.t) /\ Stay(object, m.obj)
    BY KeepInUseKeeps
  <2>2. Take(m)
    BY <1>3 DEF Use, State
  <2> HIDE DEF m
  <2> QED
    BY <2>1, <2>2, Taken
<1>4. CASE ChildRemoved(o)
  <2> DEFINE s == DestroyUnused(State)
  <2>1. Kept(s.obj, s.t) /\ Stay(object, s.obj)
    BY StateKept
  <2>2. Take(s)
    BY <1>4 DEF ChildRemoved
  <2> HIDE DEF s
  <2> QED
    BY <2>1, <2>2, Taken
<1>5. CASE DeleteObject(o)
  <2>1. object' = [object EXCEPT ![o] = NoObject] /\ timers' = timers /\ object[o].status = "doomed"
    BY <1>5 DEF DeleteObject
  <2>2. object \in [Object -> ObjectType] /\ NoObject \in ObjectType /\ ~NoObject.listed
        /\ NoObject.busy = FALSE /\ NoObject.autoDestruct = TRUE /\ NoObject.status = "none"
    BY LifeFacts DEF Kept, Checked, NoObject
  <2>3. /\ object' \in [Object -> ObjectType] /\ object'[o] = NoObject
        /\ \A p \in Object : p # o => object'[p] = object[p]
    BY <2>1, <2>2
  <2>4. Listed(object') \subseteq Listed(object)
    BY <2>2, <2>3 DEF Listed
  <2>5. ASSUME NEW p \in Object
        PROVE  object'[p].busy = ~object'[p].autoDestruct /\ (object'[p].status = "live" => p # o)
    BY <2>2, <2>3 DEF Kept, Checked
  <2>6. Checked(object', timers)
    BY <2>3, <2>4, <2>5 DEF Kept, Checked
  <2>7. Kept(object', timers)
    BY <2>3, <2>5, <2>6 DEF Kept
  <2>8. BusyLive
    BY <2>1, <2>3 DEF BusyLive, Live
  <2> QED
    BY <2>1, <2>7, <2>8 DEF ObjectsChange, Kept, Checked, Listed
<1> QED
  BY <1>1, <1>2, <1>3, <1>4, <1>5

\* A timer has less to go when objects are older.
LEMMA TickKeeps ==
  ASSUME Kept(object, timers), Tick
  PROVE  ObjectsChange
<1> DEFINE older(o) == [object[o] EXCEPT !.age = @ + 1]
<1>1. object \in [Object -> ObjectType] /\ timers \in TimersType
      /\ \A o \in Object : object[o].age \in 0 .. MaxAge /\ object[o].kind \in Kind
  BY DEF Kept, Checked, ObjectType
<1>2. /\ timers'.dispose = OneLess(timers.dispose) /\ timers'.notify = OneLess(timers.notify)
      /\ timers'.made = timers.made /\ timers'.interval = timers.interval
      /\ DOMAIN timers' = DOMAIN timers
      /\ timers' = [timers EXCEPT !.dispose = OneLess(timers.dispose),
                                  !.notify = OneLess(timers.notify)]
  BY <1>1 DEF Tick, TimersType
<1>3. \A n : (n = Off => OneLess(n) = Off) /\ (n \in Nat => n # Off /\ OneLess(n) \in 0 .. n
                                                /\ OneLess(n) # Off /\ OneLess(n) + 1 >= n)
  <2> TAKE n
  <2>1. n = Off => OneLess(n) = Off
    BY DEF OneLess
  <2>2. n \in Nat => n # Off /\ OneLess(n) \in 0 .. n /\ OneLess(n) + 1 >= n
    BY LifeFacts DEF OneLess
  <2>3. n \in Nat => OneLess(n) # Off
    BY <2>2, LifeFacts
  <2> QED
    BY <2>1, <2>2, <2>3
<1>4. \A o \in Object : object[o].age < MaxAge =>
        /\ older(o) \in ObjectType /\ older(o).age = object[o].age + 1
        /\ older(o).status = object[o].status /\ older(o).listed = object[o].listed
        /\ older(o).busy = object[o].busy /\ older(o).autoDestruct = object[o].autoDestruct
        /\ older(o).kind = object[o].kind
  <2> SUFFICES ASSUME NEW o \in Object, object[o].age < MaxAge
               PROVE  /\ older(o) \in ObjectType /\ older(o).age = object[o].age + 1
                      /\ older(o).status = object[o].status /\ older(o).listed = object[o].listed
                      /\ older(o).busy = object[o].busy
                      /\ older(o).autoDestruct = object[o].autoDestruct
                      /\ older(o).kind = object[o].kind
    OBVIOUS
  <2>1. object[o] \in ObjectType /\ object[o].age + 1 \in 0 .. MaxAge
    BY <1>1, LifeFacts
  <2> QED
    BY <2>1 DEF ObjectType
<1>5. object' = [o \in Object |-> IF Exists(o) /\ object[o].age < MaxAge THEN older(o) ELSE object[o]]
  BY DEF Tick
<1> HIDE DEF older
<1>6. \A o \in Object :
        \/ object'[o] = object[o] /\ (Live(o) => object[o].age >= MaxAge)
        \/ object'[o] = older(o) /\ object[o].age < MaxAge
  BY <1>1, <1>5, LifeFacts DEF Exists, Live
<1>7. object' \in [Object -> ObjectType]
  <2>1. \A o \in Object : (IF Exists(o) /\ object[o].age < MaxAge THEN older(o) ELSE object[o])
                             \in ObjectType
    BY <1>1, <1>4
  <2> QED
    BY <1>5, <2>1
<1>8. timers.dispose \in Nat \cup {Off} /\ timers.notify \in Nat \cup {Off} /\ timers.interval \in Nat
      /\ timers.dispose \in 0 .. timers.interval \cup {Off}
      /\ timers.notify \in 0 .. DaemonTimeout \cup {Off}
  BY <1>1 DEF TimersType, Kept, Checked
<1>9. /\ timers' \in TimersType /\ timers'.dispose \in 0 .. timers'.interval \cup {Off}
      /\ timers'.notify \in 0 .. DaemonTimeout \cup {Off}
      /\ (timers'.notify # Off <=> timers.notify # Off)
      /\ (timers'.dispose # Off <=> timers.dispose # Off)
  <2>1. OneLess(timers.dispose) \in Nat \cup {Off} /\ OneLess(timers.notify) \in Nat \cup {Off}
    BY <1>3, <1>8
  <2>2. timers' \in TimersType
    BY <1>1, <1>2, <2>1 DEF TimersType
  <2>3. OneLess(timers.dispose) \in 0 .. timers.interval \cup {Off}
    BY <1>3, <1>8
  <2>4. OneLess(timers.notify) \in 0 .. DaemonTimeout \cup {Off}
    BY <1>3, <1>8, LifeFacts
  <2>5. /\ (OneLess(timers.notify) # Off <=> timers.notify # Off)
        /\ (OneLess(timers.dispose) # Off <=> timers.dispose # Off)
    BY <1>3, <1>8
  <2> QED
    BY <1>2, <2>2, <2>3, <2>4, <2>5
<1>10. \A o \in Object :
         /\ object'[o].status = object[o].status /\ object'[o].listed = object[o].listed
         /\ object'[o].busy = object[o].busy /\ object'[o].autoDestruct = object[o].autoDestruct
         /\ object'[o].kind = object[o].kind
  BY <1>4, <1>6
<1>11. Listed(object') = Listed(object)
  BY <1>10 DEF Listed
<1>12. ASSUME NEW o \in Object, timers.made, object[o].status = "live"
       PROVE  /\ timers.interval > MaxInactivity(object[o].kind)
              /\ object[o].autoDestruct =>
                   /\ timers.dispose # Off
                   /\ object'[o].age > MaxInactivity(object[o].kind)
                        \/ object'[o].age + timers'.dispose > MaxInactivity(object[o].kind)
  <2> DEFINE max == MaxInactivity(object[o].kind)
  <2>1. timers.interval > max
    BY <1>12 DEF Kept, Checked
  <2>2. ASSUME object[o].autoDestruct
        PROVE  /\ timers.dispose # Off
               /\ object'[o].age > max \/ object'[o].age + timers'.dispose > max
    <3>1. timers.dispose \in Nat
          /\ (object[o].age > max \/ object[o].age + timers.dispose > max)
      BY <1>8, <1>12, <2>2 DEF Kept, Checked
    <3>2. timers'.dispose \in Nat /\ timers'.dispose + 1 >= timers.dispose /\ timers.dispose # Off
      BY <1>2, <1>3, <3>1
    <3>3. max \in Nat /\ max < MaxAge /\ object[o].age \in Nat
      BY <1>1, LifeFacts
    <3> HIDE DEF max
    <3>4. CASE object'[o] = object[o] /\ object[o].age >= MaxAge
      BY <3>2, <3>3, <3>4, LifeFacts
    <3>5. CASE object'[o] = older(o) /\ object[o].age < MaxAge
      <4>1. object'[o].age = object[o].age + 1
        BY <1>4, <3>5
      <4> QED
        BY <3>1, <3>2, <3>3, <4>1
    <3> QED
      BY <1>6, <1>12, <3>4, <3>5 DEF Live
  <2> QED
    BY <2>1, <2>2
<1>13. Kept(object', timers')
  <2>1. Checked(object', timers')
    BY <1>2, <1>7, <1>9, <1>10, <1>11, <1>12 DEF Kept, Checked
  <2> QED
    BY <1>2, <1>9, <1>10, <1>12, <2>1 DEF Kept
<1>14. BusyLive
  BY <1>10 DEF BusyLive, Live
<1> QED
  BY <1>13, <1>14 DEF ObjectsChange, Kept, Checked, Listed

\* When the timer fires, what may be disposed of is old enough.
LEMMA DisposeKeeps ==
  ASSUME Kept(object, timers), DisposeTimeout
  PROVE  ObjectsChange
<1> DEFINE u == [timers EXCEPT !.dispose = Off]
           q == [obj |-> object, t |-> u]
           s == DestroyUnused(q)
<1>1. [State EXCEPT !.t.dispose = Off] = q
  BY DEF State
<1>2. /\ u \in TimersType /\ u.made = timers.made /\ u.interval = timers.interval
      /\ u.notify = timers.notify /\ u.dispose = Off
  BY DEF Kept, Checked, TimersType
<1>3. timers.dispose = 0
  BY DEF DisposeTimeout
<1> HIDE DEF u
<1>4. ASSUME NEW o \in Object, u.made, object[o].status = "live", object[o].autoDestruct
      PROVE  object[o].age > MaxInactivity(object[o].kind)
  <2>1. \/ object[o].age > MaxInactivity(object[o].kind)
        \/ object[o].age + 0 > MaxInactivity(object[o].kind)
    BY <1>2, <1>3, <1>4 DEF Kept, Checked
  <2>2. object[o].age \in Nat
    BY ObjectFacts, LifeFacts DEF Kept
  <2> QED
    BY <2>1, <2>2
<1>5. Checked(object, u)
  BY <1>2, <1>4 DEF Kept, Checked
<1>6. CASE \E o \in Object : Exists(o)
  <2>1. Take(s)
    BY <1>1, <1>6 DEF DisposeTimeout
  <2>2. Kept(s.obj, s.t) /\ Stay(object, s.obj)
    BY <1>5, DestroyUnusedKeeps
  <2> HIDE DEF s
  <2> QED
    BY <2>1, <2>2, Taken
<1>7. CASE ~\E o \in Object : Exists(o)
  <2>1. Take(q)
    BY <1>1, <1>7 DEF DisposeTimeout
  <2>2. Kept(object, u)
    BY <1>5, <1>7 DEF Kept, Exists
  <2>3. Stay(object, object)
    BY DEF Stay
  <2>4. q.obj = object /\ q.t = u
    OBVIOUS
  <2> HIDE DEF q
  <2> QED
    BY <2>1, <2>2, <2>3, <2>4, Taken
<1> QED
  BY <1>6, <1>7

-----------------------------------------------------------------------------
(* The events, and the daemon they are for *)

EventType == [name : {"init", "delete", "quit"}, of : Instance \cup {0}]

\* An event that is posted comes last, or is there already.
LEMMA QueuedFacts ==
  ASSUME NEW events \in Seq(EventType), NEW e \in EventType
  PROVE  LET q == Queued(events, e)
         IN  /\ q \in Seq(EventType)
             /\ \/ q = events /\ \E k \in DOMAIN events : events[k] = e
                \/ /\ q = Append(events, e) /\ \A k \in DOMAIN events : events[k] # e
                   /\ Len(events) \in Nat /\ DOMAIN events = 1 .. Len(events)
                   /\ DOMAIN q = 1 .. Len(events) + 1 /\ q[Len(events) + 1] = e
                   /\ \A k \in 1 .. Len(events) : q[k] = events[k]
<1>1. Len(events) \in Nat /\ DOMAIN events = 1 .. Len(events)
  BY LenProperties
<1>2. /\ Append(events, e) \in Seq(EventType) /\ Len(Append(events, e)) = Len(events) + 1
      /\ Append(events, e)[Len(events) + 1] = e
      /\ \A k \in 1 .. Len(events) : Append(events, e)[k] = events[k]
  BY AppendProperties
<1>3. DOMAIN Append(events, e) = 1 .. Len(events) + 1
  BY <1>1, <1>2, LenProperties
<1> QED
  BY <1>1, <1>2, <1>3 DEF Queued

\* deleteLater() of the daemon that runs
LEMMA DeletePosted ==
  ASSUME NEW events \in Seq(EventType), NEW of \in Instance, NEW instances,
         Ordered(events, of, instances)
  PROVE  LET q == Queued(events, Event("delete", of))
         IN  /\ q \in Seq(EventType) /\ Ordered(q, of, instances)
             /\ \E k \in DOMAIN q : q[k].name = "delete"
<1> DEFINE e == Event("delete", of)
           q == Queued(events, e)
           n == Len(events) + 1
<1>1. e \in EventType /\ e.name = "delete" /\ e.of = of
  BY DEF Event, EventType
<1>2. /\ q \in Seq(EventType)
      /\ \/ q = events /\ \E k \in DOMAIN events : events[k] = e
         \/ /\ \A k \in DOMAIN events : events[k] # e
            /\ Len(events) \in Nat /\ DOMAIN events = 1 .. Len(events)
            /\ DOMAIN q = 1 .. n /\ q[n] = e
            /\ \A k \in 1 .. Len(events) : q[k] = events[k]
  <2> HIDE DEF e
  <2> QED
    BY <1>1, QueuedFacts
<1> HIDE DEF q
<1> HIDE DEF e
<1> SUFFICES q \in Seq(EventType) /\ Ordered(q, of, instances)
             /\ \E k \in DOMAIN q : q[k].name = "delete"
  BY DEF q, e
<1>3. CASE q = events /\ \E k \in DOMAIN events : events[k] = e
  BY <1>1, <1>2, <1>3
<1>4. CASE /\ \A k \in DOMAIN events : events[k] # e
           /\ Len(events) \in Nat /\ DOMAIN events = 1 .. Len(events)
           /\ DOMAIN q = 1 .. n /\ q[n] = e
           /\ \A k \in 1 .. Len(events) : q[k] = events[k]
  <2>1. ASSUME NEW k \in 1 .. Len(events) PROVE events[k].name # "delete"
    <3>1. events[k] \in EventType
      BY ElementOfSeq
    <3>2. events[k].name = "delete" => events[k].of = of
      BY <1>4 DEF Ordered
    <3>3. events[k].name = "delete" => events[k] = e
      BY <3>1, <3>2 DEF EventType, Event, e
    <3> QED
      BY <1>4, <3>3
  <2>2. of # 0 /\ of \in Nat
    BY DEF Instance
  <2>3. ASSUME NEW k \in 1 .. n
        PROVE  /\ q[k].name = "delete" => of # 0 /\ q[k].of = of
               /\ q[k].name = "init" =>
                    /\ q[k].of # 0 /\ instances[q[k].of] = "new"
                    /\ of # 0 => \E j \in DOMAIN q : j < k /\ q[j].name = "delete"
               /\ \A j \in DOMAIN q : q[j].name = q[k].name /\ q[j].name # "quit" => j = k
    <3>1. CASE k = n
      BY <1>1, <1>4, <2>1, <2>2, <3>1
    <3>2. CASE k \in 1 .. Len(events)
      <4>1. q[k] = events[k]
        BY <1>4, <3>2
      <4>2. q[k].name # "delete"
        BY <2>1, <3>2, <4>1
      <4>3. q[k].name = "init" =>
              /\ q[k].of # 0 /\ instances[q[k].of] = "new"
              /\ \E j \in DOMAIN events : j < k /\ events[j].name = "delete"
        BY <1>4, <2>2, <3>2, <4>1 DEF Ordered
      <4>4. q[k].name # "init"
        BY <1>4, <2>1, <4>3
      <4>5. \A j \in DOMAIN events : events[j].name = q[k].name /\ events[j].name # "quit" => j = k
        BY <1>4, <3>2, <4>1 DEF Ordered
      <4>6. \A j \in DOMAIN q : q[j].name = q[k].name /\ q[j].name # "quit" => j = k
        <5> SUFFICES ASSUME NEW j \in DOMAIN q, q[j].name = q[k].name, q[j].name # "quit"
                     PROVE  j = k
          OBVIOUS
        <5>1. j # n
          BY <1>1, <1>4, <4>2
        <5>2. j \in 1 .. Len(events)
          BY <1>4, <5>1
        <5> QED
          BY <1>4, <4>5, <5>2
      <4> QED
        BY <4>2, <4>4, <4>6
    <3> QED
      BY <1>4, <3>1, <3>2
  <2>4. Ordered(q, of, instances)
    BY <1>4, <2>3 DEF Ordered
  <2>5. n \in DOMAIN q /\ q[n].name = "delete"
    BY <1>1, <1>4
  <2> QED
    BY <1>2, <2>4, <2>5
<1> QED
  BY <1>2, <1>3, <1>4

\* quit(), which has no order
LEMMA QuitPosted ==
  ASSUME NEW events \in Seq(EventType), NEW of, NEW instances, Ordered(events, of, instances)
  PROVE  LET e == Event("quit", 0)
         IN  /\ Queued(events, e) \in Seq(EventType) /\ Ordered(Queued(events, e), of, instances)
             /\ Append(events, e) \in Seq(EventType) /\ Ordered(Append(events, e), of, instances)
<1> DEFINE e == Event("quit", 0)
           q == Append(events, e)
           n == Len(events) + 1
<1>1. e \in EventType /\ e.name = "quit"
  BY DEF Event, EventType
<1>2. Len(events) \in Nat /\ DOMAIN events = 1 .. Len(events)
  BY LenProperties
<1>3. /\ q \in Seq(EventType) /\ Len(q) = n /\ q[n] = e
      /\ \A k \in 1 .. Len(events) : q[k] = events[k]
  <2> HIDE DEF e
  <2> QED
    BY <1>1, AppendProperties
<1>4. DOMAIN q = 1 .. n
  BY <1>2, <1>3, LenProperties
<1> HIDE DEF q
<1>5. ASSUME NEW k \in 1 .. n
      PROVE  /\ q[k].name = "delete" => of # 0 /\ q[k].of = of
             /\ q[k].name = "init" =>
                  /\ q[k].of # 0 /\ instances[q[k].of] = "new"
                  /\ of # 0 => \E j \in DOMAIN q : j < k /\ q[j].name = "delete"
             /\ \A j \in DOMAIN q : q[j].name = q[k].name /\ q[j].name # "quit" => j = k
  <2>1. CASE k = n
    BY <1>1, <1>3, <2>1
  <2>2. CASE k \in 1 .. Len(events)
    <3>1. q[k] = events[k]
      BY <1>3, <2>2
    <3>2. /\ q[k].name = "delete" => of # 0 /\ q[k].of = of
          /\ q[k].name = "init" => q[k].of # 0 /\ instances[q[k].of] = "new"
      BY <1>2, <2>2, <3>1 DEF Ordered
    <3>3. ASSUME q[k].name = "init", of # 0
          PROVE  \E j \in DOMAIN q : j < k /\ q[j].name = "delete"
      <4>1. PICK j \in DOMAIN events : j < k /\ events[j].name = "delete"
        BY <1>2, <2>2, <3>1, <3>3 DEF Ordered
      <4> QED
        BY <1>2, <1>3, <1>4, <4>1
    <3>4. ASSUME NEW j \in DOMAIN q, q[j].name = q[k].name, q[j].name # "quit"
          PROVE  j = k
      <4>1. j # n
        BY <1>1, <1>3, <3>4
      <4>2. j \in 1 .. Len(events)
        BY <1>2, <1>4, <4>1
      <4>3. events[j].name = events[k].name /\ events[j].name # "quit"
        BY <1>3, <3>1, <3>4, <4>2
      <4> QED
        BY <1>2, <2>2, <4>2, <4>3 DEF Ordered
    <3> QED
      BY <3>2, <3>3, <3>4
  <2> QED
    BY <1>2, <2>1, <2>2
<1>6. Ordered(q, of, instances)
  BY <1>4, <1>5 DEF Ordered
<1>7. Queued(events, e) = events \/ Queued(events, e) = q
  BY DEF Queued, q
<1> HIDE DEF e
<1> QED
  BY <1>3, <1>6, <1>7 DEF e, q

\* init() of the second daemon, behind the end of the first
LEMMA InitPosted ==
  ASSUME NEW events \in Seq(EventType), NEW of \in Instance, NEW instances \in [Instance -> {"none", "new", "running", "deleted"}],
         Ordered(events, of, instances), \A k \in DOMAIN events : events[k].name # "init",
         \E k \in DOMAIN events : events[k].name = "delete"
  PROVE  LET q == Queued(events, Event("init", 2))
         IN  q \in Seq(EventType) /\ Ordered(q, of, [instances EXCEPT ![2] = "new"])
<1> DEFINE e == Event("init", 2)
           q == Queued(events, e)
           n == Len(events) + 1
           new == [instances EXCEPT ![2] = "new"]
<1>1. e \in EventType /\ e.name = "init" /\ e.of = 2 /\ new[2] = "new" /\ 2 # 0
  BY DEF Event, EventType, Instance
<1>2. /\ q \in Seq(EventType)
      /\ Len(events) \in Nat /\ DOMAIN events = 1 .. Len(events)
      /\ DOMAIN q = 1 .. n /\ q[n] = e
      /\ \A k \in 1 .. Len(events) : q[k] = events[k]
  <2>1. \A k \in DOMAIN events : events[k] # e
    BY <1>1
  <2> HIDE DEF e
  <2>2. LET r == Queued(events, e)
        IN  /\ r \in Seq(EventType)
            /\ \/ r = events /\ \E k \in DOMAIN events : events[k] = e
               \/ /\ r = Append(events, e) /\ \A k \in DOMAIN events : events[k] # e
                  /\ Len(events) \in Nat /\ DOMAIN events = 1 .. Len(events)
                  /\ DOMAIN r = 1 .. Len(events) + 1 /\ r[Len(events) + 1] = e
                  /\ \A k \in 1 .. Len(events) : r[k] = events[k]
    BY <1>1, QueuedFacts
  <2> QED
    BY <2>1, <2>2
<1> HIDE DEF q, new, e
<1>3. ASSUME NEW k \in 1 .. n
      PROVE  /\ q[k].name = "delete" => of # 0 /\ q[k].of = of
             /\ q[k].name = "init" =>
                  /\ q[k].of # 0 /\ new[q[k].of] = "new"
                  /\ of # 0 => \E j \in DOMAIN q : j < k /\ q[j].name = "delete"
             /\ \A j \in DOMAIN q : q[j].name = q[k].name /\ q[j].name # "quit" => j = k
  <2>1. CASE k = n
    <3>1. PICK j \in DOMAIN events : events[j].name = "delete"
      OBVIOUS
    <3>2. j \in DOMAIN q /\ j < n /\ q[j].name = "delete"
      BY <1>2, <3>1
    <3>3. \A i \in DOMAIN q : q[i].name = "init" => i = n
      <4> SUFFICES ASSUME NEW i \in DOMAIN q, i # n PROVE q[i].name # "init"
        OBVIOUS
      <4>1. i \in 1 .. Len(events)
        BY <1>2
      <4> QED
        BY <1>2, <4>1
    <3> QED
      BY <1>1, <1>2, <2>1, <3>2, <3>3
  <2>2. CASE k \in 1 .. Len(events)
    <3>1. q[k] = events[k] /\ q[k].name # "init"
      BY <1>2, <2>2
    <3>2. q[k].name = "delete" => of # 0 /\ q[k].of = of
      BY <1>2, <2>2, <3>1 DEF Ordered
    <3>3. ASSUME NEW j \in DOMAIN q, q[j].name = q[k].name, q[j].name # "quit"
          PROVE  j = k
      <4>1. j # n
        BY <1>1, <1>2, <3>1, <3>3
      <4>2. j \in 1 .. Len(events)
        BY <1>2, <4>1
      <4>3. events[j].name = events[k].name /\ events[j].name # "quit"
        BY <1>2, <3>1, <3>3, <4>2
      <4> QED
        BY <1>2, <2>2, <4>2, <4>3 DEF Ordered
    <3> QED
      BY <3>1, <3>2, <3>3
  <2> QED
    BY <1>2, <2>1, <2>2
<1>4. Ordered(q, of, new)
  BY <1>2, <1>3 DEF Ordered
<1> QED
  BY <1>2, <1>4 DEF q, new, e

\* The next event, and those that follow it
LEMMA NextEvent ==
  ASSUME LifeIInv, posted # <<>>
  PROVE  /\ Head(posted) \in EventType /\ Tail(posted) \in Seq(EventType)
         /\ Head(posted).name = "init" =>
              /\ sigFd.of = 0 /\ Head(posted).of \in Instance
              /\ daemon[Head(posted).of] = "new"
         /\ Head(posted).name = "delete" => sigFd.of # 0 /\ Head(posted).of = sigFd.of
         /\ \A k \in DOMAIN Tail(posted) :
              /\ Head(posted).name # "quit" => Tail(posted)[k].name # Head(posted).name
              /\ Tail(posted)[k].name = "delete" => sigFd.of # 0
              /\ Tail(posted)[k].name = "init" =>
                   Tail(posted)[k].of # 0 /\ daemon[Tail(posted)[k].of] = "new"
              /\ \A j \in DOMAIN Tail(posted) :
                   Tail(posted)[j].name = Tail(posted)[k].name /\ Tail(posted)[j].name # "quit"
                     => j = k
<1> DEFINE t == Tail(posted)
           e == Head(posted)
<1>0. posted \in Seq(EventType) /\ Ordered(posted, sigFd.of, daemon)
  BY DEF LifeIInv, LifeTypeOK, EventType
<1>1. /\ e \in EventType /\ t \in Seq(EventType) /\ e = posted[1] /\ Len(posted) \in Nat \ {0}
      /\ Len(t) = Len(posted) - 1 /\ \A i \in 1 .. Len(t) : t[i] = posted[i + 1]
      /\ DOMAIN posted = 1 .. Len(posted)
  <2>1. Len(posted) \in Nat \ {0} /\ DOMAIN posted = 1 .. Len(posted)
    BY <1>0, EmptySeq, LenProperties
  <2> QED
    BY <1>0, <2>1, HeadTailProperties, TailIsRemoveAt
<1>2. DOMAIN t = 1 .. Len(posted) - 1
  BY <1>1, LenProperties
<1> HIDE DEF t, e
<1>3. \A k \in DOMAIN t : /\ k \in Nat /\ k >= 1 /\ k + 1 \in DOMAIN posted /\ k + 1 # 1
                          /\ t[k] = posted[k + 1]
  BY <1>1, <1>2
<1>4. 1 \in DOMAIN posted
  BY <1>1
<1>5. /\ e.name = "init" => sigFd.of = 0 /\ e.of # 0 /\ daemon[e.of] = "new"
      /\ e.name = "delete" => sigFd.of # 0 /\ e.of = sigFd.of
  <2>1. \A j \in DOMAIN posted : ~(j < 1)
    BY <1>1
  <2> QED
    BY <1>0, <1>1, <1>4, <2>1 DEF Ordered
<1>6. e.of # 0 => e.of \in Instance
  BY <1>1 DEF EventType
<1>7. ASSUME NEW k \in DOMAIN t
      PROVE  /\ e.name # "quit" => t[k].name # e.name
             /\ t[k].name = "delete" => sigFd.of # 0
             /\ t[k].name = "init" => t[k].of # 0 /\ daemon[t[k].of] = "new"
             /\ \A j \in DOMAIN t : t[j].name = t[k].name /\ t[j].name # "quit" => j = k
  <2>1. k + 1 \in DOMAIN posted /\ k + 1 # 1 /\ t[k] = posted[k + 1] /\ k \in Nat
    BY <1>3
  <2>2. e.name # "quit" => t[k].name # e.name
    BY <1>0, <1>1, <1>4, <2>1 DEF Ordered
  <2>3. /\ t[k].name = "delete" => sigFd.of # 0
        /\ t[k].name = "init" => t[k].of # 0 /\ daemon[t[k].of] = "new"
    BY <1>0, <2>1 DEF Ordered
  <2>4. ASSUME NEW j \in DOMAIN t, t[j].name = t[k].name, t[j].name # "quit"
        PROVE  j = k
    <3>1. j + 1 \in DOMAIN posted /\ t[j] = posted[j + 1] /\ j \in Nat
      BY <1>3
    <3>2. j + 1 = k + 1
      BY <1>0, <2>1, <2>4, <3>1 DEF Ordered
    <3> QED
      BY <2>1, <3>1, <3>2
  <2> QED
    BY <2>2, <2>3, <2>4
<1> QED
  BY <1>1, <1>5, <1>6, <1>7 DEF t, e

LEMMA DaemonFacts ==
  ASSUME LifeIInv
  PROVE  /\ Kept(object, timers) /\ OneDaemon /\ Ordered(posted, sigFd.of, daemon)
         /\ object \in [Object -> ObjectType] /\ timers \in TimersType
         /\ posted \in Seq(EventType)
         /\ daemon \in [Instance -> {"none", "new", "running", "deleted"}]
         /\ sigFd \in [of : Instance \cup {0}, pipe : Seq({"SIGTERM", "SIGHUP"})]
         /\ \A i \in Instance : daemon[i] = "running" <=> sigFd.of = i
         /\ \A i \in Instance : i # 0
         /\ 1 \in Instance /\ 2 \in Instance /\ 1 # 2
<1>1. LifeTypeOK /\ Kept(object, timers) /\ OneDaemon /\ Ordered(posted, sigFd.of, daemon)
  BY DEF LifeIInv
<1>2. /\ object \in [Object -> ObjectType] /\ timers \in TimersType
      /\ posted \in Seq(EventType)
      /\ daemon \in [Instance -> {"none", "new", "running", "deleted"}]
      /\ sigFd \in [of : Instance \cup {0}, pipe : Seq({"SIGTERM", "SIGHUP"})]
  BY <1>1 DEF LifeTypeOK, ObjectType, TimersType, EventType
<1>3. \A i \in Instance : daemon[i] = "running" <=> sigFd.of = i
  BY <1>1 DEF OneDaemon
<1>4. (\A i \in Instance : i # 0) /\ 1 \in Instance /\ 2 \in Instance /\ 1 # 2
  BY DEF Instance
<1> QED
  BY <1>1, <1>2, <1>3, <1>4

-----------------------------------------------------------------------------
(* What leaves the daemon alone *)

LEMMA ObjectsNext ==
  ASSUME LifeIInv, UNCHANGED <<disorder, posted, daemon, sigFd, process, signals, terminated, hungUp>>,
         ObjectsChange, asked' \in BOOLEAN, used' \in BOOLEAN, calls' \in 0 .. MaxCalls,
         sigFd.of = 0 => timers' = timers /\ object' = object
  PROVE  LifeIInv' /\ BusyLive
<1>1. Kept(object, timers)' /\ BusyLive
  BY DEF ObjectsChange
<1>2. LifeTypeOK'
  BY <1>1 DEF LifeIInv, LifeTypeOK, Kept, Checked, ObjectType, TimersType
<1>3. OneDaemon'
  BY DEF LifeIInv, OneDaemon
<1>4. Ordered(posted, sigFd.of, daemon)'
  BY DEF LifeIInv, Ordered
<1> QED
  BY <1>1, <1>2, <1>3, <1>4 DEF LifeIInv

LEMMA CallsNext ==
  ASSUME LifeIInv, UNCHANGED disorder, NEW o \in Object,
         \/ GetIdentity(o) \/ GetAuthSession(o)
         \/ GetIdentityUnfound(o) \/ GetAuthSessionUnknown(o)
         \/ Begin(o) \/ End(o) \/ Use(o) \/ ChildRemoved(o) \/ DeleteObject(o)
  PROVE  LifeIInv' /\ BusyLive
<1>1. ObjectsChange
  BY CallsKeep, UsesKeep DEF LifeIInv
<1>2. UNCHANGED <<posted, daemon, sigFd, process, signals, terminated, hungUp>>
  BY DEF GetIdentity, GetAuthSession, GetIdentityUnfound, GetAuthSessionUnknown,
         Begin, End, Use, ChildRemoved, DeleteObject, Calls, history
<1>3. asked \in BOOLEAN /\ used \in BOOLEAN /\ calls \in 0 .. MaxCalls
  BY DEF LifeIInv, LifeTypeOK
<1>4. asked' \in BOOLEAN /\ used' \in BOOLEAN
  BY <1>3 DEF GetIdentity, GetAuthSession, GetIdentityUnfound, GetAuthSessionUnknown,
         Begin, End, Use, ChildRemoved, DeleteObject, history
<1>5. calls' \in 0 .. MaxCalls
  <2>1. calls' = calls \/ (calls < MaxCalls /\ calls' = calls + 1)
    BY DEF GetIdentity, GetAuthSession, GetIdentityUnfound, GetAuthSessionUnknown,
           Begin, End, Use, ChildRemoved, DeleteObject, Calls, history
  <2> QED
    BY <1>3, <2>1, LifeFacts
<1>6. sigFd.of # 0
  <2>1. CASE \E i \in Instance : daemon[i] = "running"
    BY <2>1, DaemonFacts
  <2>2. CASE Live(o) \/ object[o].status = "doomed"
    <3>1. object[o] # NoObject
      BY <2>2 DEF NoObject, Live
    <3> QED
      BY <3>1 DEF LifeIInv, OneDaemon
  <2> QED
    BY <2>1, <2>2 DEF GetIdentity, GetAuthSession, GetIdentityUnfound, GetAuthSessionUnknown,
           Begin, End, Use, ChildRemoved, DeleteObject, Calls
<1> QED
  BY <1>1, <1>2, <1>4, <1>5, <1>6, ObjectsNext

LEMMA AskNext ==
  ASSUME LifeIInv, UNCHANGED disorder, Ask \/ AccessReplyFinished
  PROVE  LifeIInv' /\ BusyLive
<1>1. ObjectsChange
  BY AskKeeps DEF LifeIInv
<1>2. /\ UNCHANGED <<posted, daemon, sigFd, process, signals, terminated, hungUp>>
      /\ asked' \in BOOLEAN /\ \E i \in Instance : daemon[i] = "running"
  BY DEF Ask, AccessReplyFinished, Calls
<1>3. used' \in BOOLEAN
  BY DEF Ask, AccessReplyFinished, LifeIInv, LifeTypeOK
<1>4. calls' \in 0 .. MaxCalls
  <2>1. calls' = calls \/ (calls < MaxCalls /\ calls' = calls + 1)
    BY DEF Ask, AccessReplyFinished, Calls
  <2>2. calls \in 0 .. MaxCalls
    BY DEF LifeIInv, LifeTypeOK
  <2> QED
    BY <2>1, <2>2, LifeFacts
<1>5. sigFd.of # 0
  BY <1>2, DaemonFacts
<1> QED
  BY <1>1, <1>2, <1>3, <1>4, <1>5, ObjectsNext

LEMMA TimeNext ==
  ASSUME LifeIInv, UNCHANGED disorder, Tick \/ DisposeTimeout
  PROVE  LifeIInv' /\ BusyLive
<1>1. ObjectsChange
  BY TickKeeps, DisposeKeeps DEF LifeIInv
<1>2. UNCHANGED <<posted, daemon, sigFd, asked, process, calls, signals, used, terminated, hungUp>>
  BY DEF Tick, DisposeTimeout, history
<1>3. asked \in BOOLEAN /\ used \in BOOLEAN /\ calls \in 0 .. MaxCalls
  BY DEF LifeIInv, LifeTypeOK
<1>4. ASSUME sigFd.of = 0
      PROVE  timers' = timers /\ object' = object
  <2>1. timers = NoTimers /\ \A o \in Object : object[o] = NoObject
    BY <1>4 DEF LifeIInv, OneDaemon
  <2>2. Tick
    BY <2>1, LifeFacts DEF DisposeTimeout, NoTimers
  <2>3. timers' = timers
    BY <2>1, <2>2 DEF Tick, OneLess, NoTimers
  <2>4. object \in [Object -> ObjectType] /\ \A o \in Object : ~Exists(o)
    BY <2>1, DaemonFacts DEF Exists, NoObject
  <2>5. object' = [o \in Object |-> object[o]]
    BY <2>2, <2>4 DEF Tick
  <2> QED
    BY <2>3, <2>4, <2>5
<1> QED
  BY <1>1, <1>2, <1>3, <1>4, ObjectsNext

-----------------------------------------------------------------------------
(* The daemon *)

\* The objects and timers of an event that posts others
LEMMA ObjectsStay ==
  ASSUME LifeIInv, UNCHANGED <<object, timers>>
  PROVE  Kept(object, timers)' /\ BusyLive
BY DEF LifeIInv, Kept, Checked, Listed, BusyLive, Live

LEMMA InitDaemonNext ==
  ASSUME LifeIInv, UNCHANGED disorder, posted # <<>>, Head(posted).name = "init",
         InitDaemon(Head(posted).of)
  PROVE  LifeIInv' /\ BusyLive
<1> DEFINE i == Head(posted).of
<1>1. i \in Instance /\ daemon[i] = "new" /\ sigFd.of = 0
  BY NextEvent
<1>2. \A o \in Object : object[o] = NoObject
  BY <1>1, DaemonFacts DEF OneDaemon
<1>3. /\ daemon' = [daemon EXCEPT ![i] = "running"] /\ sigFd' = [of |-> i, pipe |-> <<>>]
      /\ timers' = (IF DaemonTimeout > 0 THEN InvokeOnIdle(object) ELSE timers)
      /\ posted' = Tail(posted)
      /\ UNCHANGED <<object, asked, process, calls, signals, used, terminated, hungUp>>
  BY DEF InitDaemon, history
<1> HIDE DEF i
<1>4. timers' \in TimersType /\ timers'.dispose = Off /\ timers'.notify = Off
  <2>1. timers = NoTimers
    BY <1>1, DaemonFacts DEF OneDaemon
  <2>2. InvokeOnIdle(object) = [made |-> TRUE, interval |-> Interval(0), dispose |-> Off, notify |-> Off]
    <3>1. Listed(object) = {}
      BY <1>2 DEF Listed, NoObject
    <3> QED
      BY <3>1 DEF InvokeOnIdle
  <2>3. Interval(0) \in Nat
    BY DEF Interval, Slack
  <2> QED
    BY <1>3, <2>1, <2>2, <2>3, NoTimersFacts DEF TimersType
<1>5. Kept(object, timers)' /\ BusyLive
  <2>1. Kept(object, timers')
    BY <1>2, <1>4, DaemonFacts, NothingKept
  <2>2. BusyLive
    BY <1>3 DEF BusyLive, Live
  <2> QED
    BY <1>3, <2>1, <2>2 DEF Kept, Checked, Listed
<1>6. Ordered(posted, sigFd.of, daemon)'
  <2>1. \A k \in DOMAIN Tail(posted) : Tail(posted)[k].name # "init"
    BY NextEvent
  <2>2. \A k \in DOMAIN Tail(posted) : Tail(posted)[k].name # "delete"
    BY <1>1, NextEvent
  <2>3. \A k, j \in DOMAIN Tail(posted) :
          Tail(posted)[j].name = Tail(posted)[k].name /\ Tail(posted)[j].name # "quit" => j = k
    BY NextEvent
  <2>4. Ordered(Tail(posted), sigFd'.of, daemon')
    BY <2>1, <2>2, <2>3 DEF Ordered
  <2> QED
    BY <1>3, <2>4 DEF Ordered
<1>7. OneDaemon'
  <2>1. /\ \A j \in Instance : daemon'[j] = IF j = i THEN "running" ELSE daemon[j]
        /\ sigFd'.of = i /\ sigFd'.pipe = <<>>
    BY <1>3, DaemonFacts
  <2>2. \A j \in Instance : daemon[j] # "running" /\ j # 0
    BY <1>1, DaemonFacts
  <2>3. \A j \in Instance : daemon'[j] = "running" <=> sigFd'.of = j
    BY <2>1, <2>2
  <2>4. (daemon[1] = "new" => daemon[2] = "none") /\ (daemon[2] # "none" => hungUp)
    BY DaemonFacts DEF OneDaemon
  <2>5. daemon'[1] # "new"
    <3>1. CASE i = 1
      BY <1>1, <2>1, <3>1
    <3>2. CASE i = 2
      BY <1>1, <2>1, <2>4, <3>2, DaemonFacts
    <3> QED
      BY <1>1, <3>1, <3>2 DEF Instance
  <2>6. daemon'[2] # "none" => hungUp
    BY <1>1, <2>1, <2>4, DaemonFacts
  <2>7. i # 0 /\ DOMAIN <<>> = {}
    BY <2>2, <1>1
  <2> QED
    BY <1>3, <2>1, <2>3, <2>5, <2>6, <2>7 DEF OneDaemon
<1>8. LifeTypeOK'
  <2>1. /\ daemon' \in [Instance -> {"none", "new", "running", "deleted"}]
        /\ sigFd' \in [of : Instance \cup {0}, pipe : Seq({"SIGTERM", "SIGHUP"})]
        /\ posted' \in Seq(EventType)
    BY <1>1, <1>3, DaemonFacts, NextEvent
  <2> QED
    BY <1>3, <1>5, <2>1
      DEF LifeIInv, LifeTypeOK, Kept, Checked, ObjectType, TimersType, EventType
<1> QED
  BY <1>5, <1>6, <1>7, <1>8 DEF LifeIInv

LEMMA DeleteDaemonNext ==
  ASSUME LifeIInv, UNCHANGED disorder, posted # <<>>, Head(posted).name = "delete",
         DeleteDaemon(Head(posted).of)
  PROVE  LifeIInv' /\ BusyLive
<1> DEFINE i == sigFd.of
           t == Tail(posted)
<1>1. Head(posted).of = i /\ i # 0 /\ i \in Instance
  BY NextEvent, DaemonFacts
<1>2. /\ daemon' = [daemon EXCEPT ![i] = "deleted"] /\ sigFd' = [of |-> 0, pipe |-> <<>>]
      /\ object' = [o \in Object |-> NoObject] /\ timers' = NoTimers
      /\ posted' = Append(t, Event("quit", 0))
      /\ UNCHANGED <<asked, process, calls, signals, used, terminated, hungUp>>
  BY <1>1 DEF DeleteDaemon, history
<1>3. /\ t \in Seq(EventType)
      /\ \A k \in DOMAIN t :
           /\ t[k].name # "delete"
           /\ t[k].name = "init" => t[k].of # 0 /\ daemon[t[k].of] = "new"
           /\ \A j \in DOMAIN t : t[j].name = t[k].name /\ t[j].name # "quit" => j = k
  BY NextEvent
<1> HIDE DEF t, i
<1>4. \A j \in Instance : daemon'[j] = IF j = i THEN "deleted" ELSE daemon[j]
  <2>1. daemon \in [Instance -> {"none", "new", "running", "deleted"}]
    BY DaemonFacts
  <2>2. daemon' = [daemon EXCEPT ![i] = "deleted"]
    BY <1>2
  <2> QED
    BY <2>1, <2>2
<1>5. daemon[i] = "running"
  BY <1>1, DaemonFacts DEF i
<1>6. Kept(object, timers)' /\ BusyLive
  <2>1. object' \in [Object -> ObjectType] /\ \A o \in Object : object'[o] = NoObject
    BY <1>2, LifeFacts
  <2>2. Kept(object', timers')
    BY <1>2, <2>1, NoTimersFacts, NothingKept
  <2>3. daemon' # daemon
    BY <1>1, <1>4, <1>5
  <2> QED
    BY <2>2, <2>3 DEF Kept, Checked, Listed, BusyLive
<1>7. Ordered(posted, sigFd.of, daemon)' /\ posted' \in Seq(EventType)
  <2>1. \A k \in DOMAIN t : t[k].name = "init" => daemon'[t[k].of] = "new"
    <3> SUFFICES ASSUME NEW k \in DOMAIN t, t[k].name = "init" PROVE daemon'[t[k].of] = "new"
      OBVIOUS
    <3>1. t[k].of # 0 /\ daemon[t[k].of] = "new" /\ t[k] \in EventType
      BY <1>3, ElementOfSeq
    <3>2. t[k].of \in Instance
      BY <3>1 DEF EventType
    <3> QED
      BY <1>4, <1>5, <3>1, <3>2
  <2>2. Ordered(t, 0, daemon')
    BY <1>3, <2>1 DEF Ordered
  <2>3. Ordered(Append(t, Event("quit", 0)), 0, daemon') /\ Append(t, Event("quit", 0)) \in Seq(EventType)
    BY <1>3, <2>2, QuitPosted
  <2>4. sigFd'.of = 0
    BY <1>2
  <2> QED
    BY <1>2, <2>3, <2>4 DEF Ordered
<1>8. OneDaemon'
  <2>1. sigFd'.of = 0 /\ sigFd'.pipe = <<>> /\ DOMAIN <<>> = {}
    BY <1>2
  <2>2. \A j \in Instance : daemon'[j] # "running" /\ j # 0
    BY <1>4, DaemonFacts DEF i
  <2>3. (daemon[1] = "new" => daemon[2] = "none") /\ (daemon[2] # "none" => hungUp)
    BY DaemonFacts DEF OneDaemon
  <2>4. daemon'[1] # "new"
    BY <1>1, <1>4, DaemonFacts DEF OneDaemon, i
  <2>5. daemon'[2] # "none" => hungUp
    BY <1>4, <1>5, <2>3, DaemonFacts
  <2>6. \A o \in Object : object'[o] = NoObject
    BY <1>2
  <2> QED
    BY <1>2, <2>1, <2>2, <2>4, <2>5, <2>6 DEF OneDaemon
<1>9. LifeTypeOK'
  <2>1. /\ daemon' \in [Instance -> {"none", "new", "running", "deleted"}]
        /\ sigFd' \in [of : Instance \cup {0}, pipe : Seq({"SIGTERM", "SIGHUP"})]
    <3>1. daemon \in [Instance -> {"none", "new", "running", "deleted"}]
      BY DaemonFacts
    <3>2. daemon' = [daemon EXCEPT ![i] = "deleted"] /\ sigFd' = [of |-> 0, pipe |-> <<>>]
      BY <1>2
    <3>3. daemon' \in [Instance -> {"none", "new", "running", "deleted"}]
      BY <3>1, <3>2
    <3>4. <<>> \in Seq({"SIGTERM", "SIGHUP"})
      OBVIOUS
    <3> QED
      BY <3>2, <3>3, <3>4
  <2> QED
    BY <1>2, <1>6, <1>7, <2>1
      DEF LifeIInv, LifeTypeOK, Kept, Checked, ObjectType, TimersType, EventType
<1> QED
  BY <1>6, <1>7, <1>8, <1>9 DEF LifeIInv

LEMMA QuitNext ==
  ASSUME LifeIInv, UNCHANGED disorder, Quit
  PROVE  LifeIInv' /\ BusyLive
<1>1. /\ process' = "ended" /\ posted' = <<>> /\ sigFd' = [of |-> 0, pipe |-> <<>>]
      /\ daemon' = [i \in Instance |-> IF daemon[i] = "none" THEN "none" ELSE "deleted"]
      /\ object' = [o \in Object |-> NoObject] /\ timers' = NoTimers
      /\ UNCHANGED <<asked, calls, signals, used, terminated, hungUp>>
  BY DEF Quit, history
<1>2. Kept(object, timers)' /\ BusyLive
  <2>1. object' \in [Object -> ObjectType] /\ \A o \in Object : object'[o] = NoObject
    BY <1>1, LifeFacts
  <2>2. Kept(object', timers')
    BY <1>1, <2>1, NoTimersFacts, NothingKept
  <2> QED
    BY <1>1, <2>2 DEF Kept, Checked, Listed, BusyLive
<1>3. Ordered(posted, sigFd.of, daemon)'
  BY <1>1 DEF Ordered
<1>4. OneDaemon'
  <2>1. \A i \in Instance : i # 0 /\ daemon'[i] \in {"none", "deleted"}
                            /\ (daemon'[i] # "none" => daemon[i] # "none")
    BY <1>1, DaemonFacts
  <2>2. daemon[2] # "none" => hungUp
    BY DaemonFacts DEF OneDaemon
  <2>3. \A o \in Object : object'[o] = NoObject
    BY <1>1
  <2> QED
    BY <1>1, <2>1, <2>2, <2>3, DaemonFacts DEF OneDaemon
<1>5. LifeTypeOK'
  <2>1. /\ daemon' \in [Instance -> {"none", "new", "running", "deleted"}]
        /\ sigFd' \in [of : Instance \cup {0}, pipe : Seq({"SIGTERM", "SIGHUP"})]
        /\ posted' \in Seq(EventType)
    BY <1>1, DaemonFacts
  <2> QED
    BY <1>1, <1>2, <2>1
      DEF LifeIInv, LifeTypeOK, Kept, Checked, ObjectType, TimersType, EventType
<1> QED
  BY <1>2, <1>3, <1>4, <1>5 DEF LifeIInv

\* What is posted by the daemon that runs: its own end, and quit()
LEMMA EndNext ==
  ASSUME LifeIInv, NEW i \in Instance, daemon[i] = "running",
         UNCHANGED <<disorder, object, timers, daemon, asked, process, calls, used, hungUp>>,
         signals' \in 0 .. MaxSignals, terminated' \in BOOLEAN, EndGently(i),
         OneDaemon', sigFd'.of = sigFd.of,
         sigFd' \in [of : Instance \cup {0}, pipe : Seq({"SIGTERM", "SIGHUP"})]
  PROVE  LifeIInv' /\ BusyLive
<1>1. Kept(object, timers)' /\ BusyLive
  BY ObjectsStay
<1>2. sigFd.of = i
  BY DaemonFacts
<1> DEFINE q == Queued(posted, Event("delete", i))
<1>3. q \in Seq(EventType) /\ Ordered(q, sigFd.of, daemon)
  BY <1>2, DaemonFacts, DeletePosted
<1>4. posted' = Queued(q, Event("quit", 0))
  BY DEF EndGently, PostBoth
<1> HIDE DEF q
<1>5. posted' \in Seq(EventType) /\ Ordered(posted', sigFd.of, daemon)
  BY <1>3, <1>4, QuitPosted
<1>6. Ordered(posted, sigFd.of, daemon)'
  BY <1>5 DEF Ordered
<1>7. LifeTypeOK'
  BY <1>1, <1>5 DEF LifeIInv, LifeTypeOK, Kept, Checked, ObjectType, TimersType, EventType
<1> QED
  BY <1>1, <1>6, <1>7 DEF LifeIInv

LEMMA SignalNext ==
  ASSUME LifeIInv, UNCHANGED disorder, NEW signal \in {"SIGTERM", "SIGHUP"}, Signal(signal)
  PROVE  LifeIInv' /\ BusyLive
<1> DEFINE p == sigFd.pipe
<1>1. /\ signals' = signals + 1 /\ signals < MaxSignals
      /\ sigFd' = IF sigFd.of = 0 THEN sigFd ELSE [sigFd EXCEPT !.pipe = Append(@, signal)]
      /\ terminated' = (terminated \/ signal = "SIGTERM")
      /\ hungUp' = (hungUp \/ signal = "SIGHUP")
      /\ UNCHANGED <<object, timers, posted, daemon, asked, process, calls, used>>
      /\ signal = "SIGHUP" => daemon[2] = "none" /\ ~hungUp
  BY DEF Signal
<1>2. Kept(object, timers)' /\ BusyLive
  BY <1>1, ObjectsStay
<1>3. p \in Seq({"SIGTERM", "SIGHUP"}) /\ Len(p) \in Nat /\ DOMAIN p = 1 .. Len(p)
  BY DaemonFacts, LenProperties
<1>4. /\ sigFd' \in [of : Instance \cup {0}, pipe : Seq({"SIGTERM", "SIGHUP"})]
      /\ sigFd'.of = sigFd.of /\ sigFd'.pipe \in {p, Append(p, signal)}
  <2>1. Append(p, signal) \in Seq({"SIGTERM", "SIGHUP"})
    BY <1>3, AppendProperties
  <2> QED
    BY <1>1, <2>1, DaemonFacts
<1>5. /\ Append(p, signal) \in Seq({"SIGTERM", "SIGHUP"})
      /\ DOMAIN Append(p, signal) = 1 .. Len(p) + 1
      /\ Append(p, signal)[Len(p) + 1] = signal
      /\ \A k \in 1 .. Len(p) : Append(p, signal)[k] = p[k]
  BY <1>3, AppendProperties, LenProperties
<1> HIDE DEF p
<1>6. (daemon[1] = "new" => sigFd.of = 0 /\ daemon[2] = "none") /\ (daemon[2] # "none" => hungUp)
      /\ \A k \in DOMAIN p : p[k] = "SIGHUP" =>
           /\ hungUp /\ daemon[2] = "none"
           /\ \A j \in DOMAIN p : p[j] = "SIGHUP" => j = k
  BY DaemonFacts DEF OneDaemon, p
<1>7. hungUp => hungUp'
  BY <1>1
<1>8. \A k \in DOMAIN sigFd'.pipe : sigFd'.pipe[k] = "SIGHUP" =>
        /\ hungUp' /\ daemon'[2] = "none"
        /\ \A j \in DOMAIN sigFd'.pipe : sigFd'.pipe[j] = "SIGHUP" => j = k
  <2>1. CASE sigFd'.pipe = p
    BY <1>1, <1>6, <1>7, <2>1
  <2>2. CASE sigFd'.pipe = Append(p, signal) /\ signal = "SIGTERM"
    <3>1. \A k \in 1 .. Len(p) + 1 : Append(p, signal)[k] = "SIGHUP" => k \in 1 .. Len(p)
      BY <1>3, <1>5, <2>2
    <3> QED
      BY <1>1, <1>3, <1>5, <1>6, <1>7, <2>2, <3>1
  <2>3. CASE sigFd'.pipe = Append(p, signal) /\ signal = "SIGHUP"
    <3>1. \A k \in 1 .. Len(p) : p[k] # "SIGHUP"
      BY <1>1, <1>3, <1>6, <2>3
    <3>2. \A k \in 1 .. Len(p) + 1 : Append(p, signal)[k] = "SIGHUP" => k = Len(p) + 1
      BY <1>3, <1>5, <3>1
    <3>3. DOMAIN sigFd'.pipe = 1 .. Len(p) + 1
          /\ \A k \in 1 .. Len(p) + 1 : sigFd'.pipe[k] = "SIGHUP" => k = Len(p) + 1
      BY <1>5, <2>3, <3>2
    <3>4. hungUp' /\ daemon'[2] = "none"
      BY <1>1, <2>3
    <3> QED
      BY <3>3, <3>4
  <2> QED
    BY <1>4, <2>1, <2>2, <2>3
<1>9. OneDaemon'
  BY <1>1, <1>4, <1>6, <1>7, <1>8, DaemonFacts DEF OneDaemon
<1>10. Ordered(posted, sigFd.of, daemon)'
  BY <1>1, <1>4, DaemonFacts DEF Ordered
<1>11. signals' \in 0 .. MaxSignals /\ terminated' \in BOOLEAN /\ hungUp' \in BOOLEAN
  <2>1. signals' \in 0 .. MaxSignals
    BY <1>1, LifeFacts DEF LifeIInv, LifeTypeOK
  <2>2. terminated' \in BOOLEAN /\ hungUp' \in BOOLEAN
    BY <1>1
  <2> QED
    BY <2>1, <2>2
<1>12. LifeTypeOK'
  BY <1>1, <1>2, <1>4, <1>11
    DEF LifeIInv, LifeTypeOK, Kept, Checked, ObjectType, TimersType, EventType
<1> QED
  BY <1>2, <1>9, <1>10, <1>12 DEF LifeIInv

LEMMA HandleNext ==
  ASSUME LifeIInv, UNCHANGED disorder, HandleUnixSignal
  PROVE  LifeIInv' /\ BusyLive
<1> DEFINE p == sigFd.pipe
           i == sigFd.of
<1>1. /\ i # 0 /\ i \in Instance /\ p # <<>> /\ daemon[i] = "running"
      /\ sigFd' = [sigFd EXCEPT !.pipe = Tail(@)]
      /\ UNCHANGED <<object, timers, asked, process, calls, signals, used, terminated, hungUp>>
  <2>1. i # 0 /\ i \in Instance
    BY DaemonFacts DEF HandleUnixSignal
  <2> QED
    BY <2>1, DaemonFacts DEF HandleUnixSignal
<1>2. Kept(object, timers)' /\ BusyLive
  BY <1>1, ObjectsStay
<1>3. /\ p \in Seq({"SIGTERM", "SIGHUP"}) /\ Len(p) \in Nat \ {0} /\ DOMAIN p = 1 .. Len(p)
      /\ Head(p) = p[1] /\ Tail(p) \in Seq({"SIGTERM", "SIGHUP"})
      /\ Len(Tail(p)) = Len(p) - 1 /\ \A k \in 1 .. Len(Tail(p)) : Tail(p)[k] = p[k + 1]
  <2>1. p \in Seq({"SIGTERM", "SIGHUP"})
    BY DaemonFacts
  <2>2. Len(p) \in Nat \ {0} /\ DOMAIN p = 1 .. Len(p)
    BY <1>1, <2>1, EmptySeq, LenProperties
  <2> QED
    BY <1>1, <2>1, <2>2, HeadTailProperties, TailIsRemoveAt
<1>4. DOMAIN Tail(p) = 1 .. Len(p) - 1
  BY <1>3, LenProperties
<1>5. /\ sigFd' \in [of : Instance \cup {0}, pipe : Seq({"SIGTERM", "SIGHUP"})]
      /\ sigFd'.of = i /\ sigFd'.pipe = Tail(p)
  BY <1>1, <1>3, DaemonFacts
<1>6. (daemon[1] = "new" => i = 0 /\ daemon[2] = "none") /\ (daemon[2] # "none" => hungUp)
      /\ \A k \in DOMAIN p : p[k] = "SIGHUP" =>
           /\ hungUp /\ daemon[2] = "none"
           /\ \A j \in DOMAIN p : p[j] = "SIGHUP" => j = k
  BY DaemonFacts DEF OneDaemon
<1>7. posted \in Seq(EventType) /\ Ordered(posted, i, daemon)
      /\ daemon \in [Instance -> {"none", "new", "running", "deleted"}]
      /\ \A j \in Instance : daemon[j] = "running" <=> i = j
  BY DaemonFacts
<1>20. CASE Head(p) = "SIGTERM" /\ EndGently(i) /\ UNCHANGED daemon
  <2> HIDE DEF p
  <2>1. \A k \in DOMAIN Tail(p) : Tail(p)[k] = "SIGHUP" =>
          /\ hungUp' /\ daemon'[2] = "none"
          /\ \A j \in DOMAIN Tail(p) : Tail(p)[j] = "SIGHUP" => j = k
    <3> SUFFICES ASSUME NEW k \in DOMAIN Tail(p), Tail(p)[k] = "SIGHUP"
                 PROVE  /\ hungUp /\ daemon[2] = "none"
                        /\ \A j \in DOMAIN Tail(p) : Tail(p)[j] = "SIGHUP" => j = k
      BY <1>1, <1>20
    <3>1. k + 1 \in DOMAIN p /\ p[k + 1] = "SIGHUP" /\ k \in Nat
      BY <1>3, <1>4
    <3>2. ASSUME NEW j \in DOMAIN Tail(p), Tail(p)[j] = "SIGHUP" PROVE j = k
      <4>1. j + 1 \in DOMAIN p /\ p[j + 1] = "SIGHUP" /\ j \in Nat
        BY <1>3, <1>4, <3>2
      <4>2. j + 1 = k + 1
        BY <1>6, <3>1, <4>1
      <4> QED
        BY <3>1, <4>1, <4>2
    <3> QED
      BY <1>6, <3>1, <3>2
  <2>2. OneDaemon'
    BY <1>1, <1>5, <1>6, <1>7, <1>20, <2>1 DEF OneDaemon
  <2> HIDE DEF i
  <2>3. signals \in 0 .. MaxSignals /\ terminated \in BOOLEAN
    BY DEF LifeIInv, LifeTypeOK
  <2>4. sigFd'.of = sigFd.of
    BY <1>5 DEF i
  <2> QED
    BY <1>1, <1>5, <1>20, <2>2, <2>3, <2>4, EndNext
<1>30. CASE /\ Head(p) = "SIGHUP"
            /\ PostBoth(Event("delete", i), Event("init", 2))
            /\ daemon' = [daemon EXCEPT ![2] = "new"]
  <2>1. 1 \in DOMAIN p /\ p[1] = "SIGHUP"
    BY <1>3, <1>30
  <2>2. /\ hungUp /\ daemon[2] = "none" /\ \A j \in DOMAIN p : p[j] = "SIGHUP" => j = 1
    BY <1>6, <2>1
  <2>3. \A k \in DOMAIN Tail(p) : Tail(p)[k] # "SIGHUP"
    <3> SUFFICES ASSUME NEW k \in DOMAIN Tail(p), Tail(p)[k] = "SIGHUP" PROVE FALSE
      OBVIOUS
    <3>1. k + 1 \in DOMAIN p /\ p[k + 1] = "SIGHUP" /\ k \in Nat /\ k # 0
      BY <1>3, <1>4
    <3> QED
      BY <2>2, <3>1
  <2> HIDE DEF p, i
  <2>4. daemon[1] # "new"
    BY <1>1, <1>6
  <2>5. \A j \in Instance : daemon'[j] = IF j = 2 THEN "new" ELSE daemon[j]
    BY <1>7, <1>30
  <2>6. i # 2 /\ daemon'[1] # "new" /\ daemon' \in [Instance -> {"none", "new", "running", "deleted"}]
    BY <1>1, <1>7, <1>30, <2>2, <2>4, <2>5, DaemonFacts
  <2>7. OneDaemon'
    <3>1. \A j \in Instance : daemon'[j] = "running" <=> sigFd'.of = j
      BY <1>5, <1>7, <2>5, <2>6
    <3> QED
      BY <1>1, <1>5, <2>2, <2>3, <2>6, <3>1 DEF OneDaemon
  <2> DEFINE q == Queued(posted, Event("delete", i))
  <2>8. q \in Seq(EventType) /\ Ordered(q, i, daemon) /\ \E k \in DOMAIN q : q[k].name = "delete"
    BY <1>1, <1>7, DeletePosted
  <2>9. posted' = Queued(q, Event("init", 2))
    BY <1>30 DEF PostBoth
  <2> HIDE DEF q
  <2>10. \A k \in DOMAIN q : q[k].name # "init"
    <3> SUFFICES ASSUME NEW k \in DOMAIN q, q[k].name = "init" PROVE FALSE
      OBVIOUS
    <3>1. q[k].of # 0 /\ daemon[q[k].of] = "new" /\ q[k] \in EventType
      BY <2>8, ElementOfSeq DEF Ordered
    <3>2. q[k].of \in {1, 2}
      BY <3>1 DEF EventType, Instance
    <3> QED
      BY <2>2, <2>4, <3>1, <3>2
  <2>11. posted' \in Seq(EventType) /\ Ordered(posted', i, daemon')
    <3>1. daemon \in [Instance -> {"none", "new", "running", "deleted"}]
      BY DaemonFacts
    <3>2. Queued(q, Event("init", 2)) \in Seq(EventType)
          /\ Ordered(Queued(q, Event("init", 2)), i, [daemon EXCEPT ![2] = "new"])
      BY <1>1, <2>8, <2>10, <3>1, InitPosted
    <3> QED
      BY <1>30, <2>9, <3>2
  <2>12. Ordered(posted, sigFd.of, daemon)'
    BY <1>5, <2>11 DEF Ordered
  <2>13. LifeTypeOK'
    BY <1>1, <1>2, <1>5, <2>6, <2>11
      DEF LifeIInv, LifeTypeOK, Kept, Checked, ObjectType, TimersType, EventType
  <2> QED
    BY <1>2, <2>7, <2>12, <2>13 DEF LifeIInv
<1> QED
  BY <1>20, <1>30 DEF HandleUnixSignal

LEMMA DisconnectedNext ==
  ASSUME LifeIInv, UNCHANGED disorder, NEW i \in Instance, OnDisconnected(i)
  PROVE  LifeIInv' /\ BusyLive
<1>1. /\ daemon[i] = "running" /\ signals < MaxSignals /\ signals' = signals + 1 /\ EndGently(i)
      /\ UNCHANGED <<object, timers, daemon, sigFd, asked, process, calls, used, terminated, hungUp>>
  BY DEF OnDisconnected
<1>2. OneDaemon'
  BY <1>1, DaemonFacts DEF OneDaemon
<1>3. signals' \in 0 .. MaxSignals /\ terminated' \in BOOLEAN
  BY <1>1, LifeFacts DEF LifeIInv, LifeTypeOK
<1>4. sigFd' = sigFd /\ sigFd \in [of : Instance \cup {0}, pipe : Seq({"SIGTERM", "SIGHUP"})]
  BY <1>1, DaemonFacts
<1> QED
  BY <1>1, <1>2, <1>3, <1>4, EndNext

LEMMA NotifyNext ==
  ASSUME LifeIInv, UNCHANGED disorder, NotifyTimeout
  PROVE  LifeIInv' /\ BusyLive
<1>1. PICK i \in Instance : daemon[i] = "running" /\ Post(Event("delete", i))
  BY DEF NotifyTimeout
<1>2. timers' = [timers EXCEPT !.notify = Off]
      /\ UNCHANGED <<object, daemon, sigFd, asked, process, calls, signals, used, terminated, hungUp>>
  BY DEF NotifyTimeout
<1>3. sigFd.of = i /\ sigFd.of # 0
  BY <1>1, DaemonFacts
<1>4. Kept(object, timers)' /\ BusyLive
  <2>1. /\ timers' \in TimersType /\ timers'.made = timers.made /\ timers'.interval = timers.interval
        /\ timers'.dispose = timers.dispose /\ timers'.notify = Off
    BY <1>2, DaemonFacts DEF TimersType
  <2>2. Kept(object, timers')
    BY <2>1, DaemonFacts DEF Kept, Checked
  <2> QED
    BY <1>2, <2>2 DEF Kept, Checked, Listed, BusyLive, Live
<1>5. OneDaemon'
  BY <1>2, <1>3, DaemonFacts DEF OneDaemon
<1>6. posted' \in Seq(EventType) /\ Ordered(posted', i, daemon)
  BY <1>1, <1>3, DaemonFacts, DeletePosted DEF Post
<1>7. Ordered(posted, sigFd.of, daemon)'
  BY <1>2, <1>3, <1>6 DEF Ordered
<1>8. LifeTypeOK'
  BY <1>2, <1>4, <1>6 DEF LifeIInv, LifeTypeOK, Kept, Checked, ObjectType, TimersType, EventType
<1> QED
  BY <1>4, <1>5, <1>7, <1>8 DEF LifeIInv

-----------------------------------------------------------------------------
(* The theorems *)

LEMMA LifeInitInv == LifeInit => LifeIInv
<1> SUFFICES ASSUME LifeInit PROVE LifeIInv
  OBVIOUS
<1>1. /\ disorder \in Disorders
      /\ object = [o \in Object |-> NoObject] /\ timers = NoTimers /\ posted = <<Event("init", 1)>>
      /\ daemon = [i \in Instance |-> IF i = 1 THEN "new" ELSE "none"]
      /\ sigFd = [of |-> 0, pipe |-> <<>>] /\ asked = FALSE /\ process = "running"
      /\ calls = 0 /\ signals = 0 /\ used = FALSE /\ terminated = FALSE /\ hungUp = FALSE
  BY DEF LifeInit
<1>2. object \in [Object -> ObjectType] /\ \A o \in Object : object[o] = NoObject
  BY <1>1, LifeFacts
<1>3. Kept(object, timers)
  BY <1>1, <1>2, NoTimersFacts, NothingKept
<1>4. /\ daemon \in [Instance -> {"none", "new", "running", "deleted"}]
      /\ daemon[1] = "new" /\ daemon[2] = "none" /\ \A i \in Instance : daemon[i] # "running" /\ i # 0
  BY <1>1 DEF Instance
<1>5. OneDaemon
  BY <1>1, <1>2, <1>4 DEF OneDaemon
<1>6. posted \in Seq(EventType) /\ DOMAIN posted = {1}
      /\ posted[1].name = "init" /\ posted[1].of = 1
  <2>1. Event("init", 1) \in EventType /\ Event("init", 1).name = "init" /\ Event("init", 1).of = 1
    BY DEF Event, EventType, Instance
  <2> HIDE DEF Event
  <2> QED
    BY <1>1, <2>1
<1>7. Ordered(posted, sigFd.of, daemon)
  BY <1>1, <1>4, <1>6 DEF Ordered
<1>8. LifeTypeOK
  <2>1. <<>> \in Seq({"SIGTERM", "SIGHUP"}) /\ 0 \in 0 .. MaxCalls /\ 0 \in 0 .. MaxSignals
    BY LifeFacts
  <2>2. sigFd \in [of : Instance \cup {0}, pipe : Seq({"SIGTERM", "SIGHUP"})]
    BY <1>1, <2>1
  <2> QED
    BY <1>1, <1>3, <1>4, <1>6, <2>1, <2>2
      DEF LifeTypeOK, Kept, Checked, ObjectType, TimersType, EventType
<1> QED
  BY <1>3, <1>5, <1>7, <1>8 DEF LifeIInv

LEMMA LifeNextInv == LifeIInv /\ [LifeNext]_lifeVars => LifeIInv' /\ [BusyLive]_lifeVars
<1> SUFFICES ASSUME LifeIInv, [LifeNext]_lifeVars PROVE LifeIInv' /\ [BusyLive]_lifeVars
  OBVIOUS
<1>1. CASE LifeNext
  <2>1. UNCHANGED disorder
    BY <1>1 DEF LifeNext
  <2>2. CASE Deliver
    BY <2>1, <2>2, InitDaemonNext, DeleteDaemonNext, QuitNext DEF Deliver
  <2>3. CASE HandleUnixSignal
    BY <2>1, <2>3, HandleNext
  <2>4. CASE \E signal \in {"SIGTERM", "SIGHUP"} : Signal(signal)
    BY <2>1, <2>4, SignalNext
  <2>5. CASE \E i \in Instance : OnDisconnected(i)
    BY <2>1, <2>5, DisconnectedNext
  <2>6. CASE \E o \in Object :
               \/ GetIdentity(o) \/ GetAuthSession(o)
               \/ GetIdentityUnfound(o) \/ GetAuthSessionUnknown(o)
               \/ Begin(o) \/ End(o) \/ Use(o) \/ ChildRemoved(o) \/ DeleteObject(o)
    BY <2>1, <2>6, CallsNext
  <2>7. CASE Tick \/ DisposeTimeout
    BY <2>1, <2>7, TimeNext
  <2>8. CASE NotifyTimeout
    BY <2>1, <2>8, NotifyNext
  <2>9. CASE Ask \/ AccessReplyFinished
    BY <2>1, <2>9, AskNext
  <2> QED
    BY <1>1, <2>2, <2>3, <2>4, <2>5, <2>6, <2>7, <2>8, <2>9 DEF LifeNext
<1>2. CASE UNCHANGED lifeVars
  BY <1>2 DEF lifeVars, history, LifeIInv, LifeTypeOK, Kept, Checked, Listed, OneDaemon, Ordered
<1> QED
  BY <1>1, <1>2

LEMMA LifeInvIsTrue == LifeIInv => LifeInv
<1> SUFFICES ASSUME LifeIInv PROVE LifeInv
  OBVIOUS
<1>1. LifeTypeOK /\ Kept(object, timers)
  BY DEF LifeIInv
<1>2. DisposalScheduled
  BY <1>1 DEF Kept, DisposalScheduled, Live
<1>3. CountsDownAlone
  BY <1>1 DEF Kept, Checked, CountsDownAlone, Live, Listed
<1> QED
  BY <1>1, <1>2, <1>3 DEF LifeInv

\* For any timeouts: an object that may be disposed of has a check to come, and the daemon
\* counts down to its end only while it has no object (SignonDisposable).
THEOREM DisposalIsDue == LifeSpec => []LifeInv
<1>1. LifeInit => LifeIInv
  BY LifeInitInv
<1>2. LifeIInv /\ [LifeNext]_lifeVars => LifeIInv'
  BY LifeNextInv
<1>3. LifeIInv => LifeInv
  BY LifeInvIsTrue
<1> QED
  BY <1>1, <1>2, <1>3, PTL DEF LifeSpec

\* No object is disposed of while it has a request or a dialog (setAutoDestruct() and
\* SignonSessionCore::destroy()).
THEOREM NothingBusyGoes == LifeSpec => BusyStay
<1>1. LifeInit => LifeIInv
  BY LifeInitInv
<1>2. LifeIInv /\ [LifeNext]_lifeVars => LifeIInv'
  BY LifeNextInv
<1>3. LifeIInv /\ [LifeNext]_lifeVars => [BusyLive]_lifeVars
  BY LifeNextInv
<1> QED
  BY <1>1, <1>2, <1>3, PTL DEF LifeSpec, BusyStay
=============================================================================
