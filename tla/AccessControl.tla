--------------------------- MODULE AccessControl ---------------------------
(***************************************************************************)
(* What the access control lists and the method lists of an identity       *)
(* permit: AccessControlManagerHelper, SignonIdentityInfo and the checks   *)
(* of the D-Bus adaptors.  An identity is the record of its lists; an      *)
(* application is its security token, as an AbstractAccessControlManager   *)
(* that keeps applications apart reports it.                               *)
(***************************************************************************)
EXTENDS FiniteSets

CONSTANTS
  Client,     \* applications
  Everyone,        \* the entry "*" of an access control list
  Keychain,   \* the keychain application
  Method,
  Word        \* the words of mechanism strings

ASSUME AccessAssumption == Everyone \notin Client /\ Keychain \in Client

\* acl and owners are the lists; methods maps methods to mechanisms.
AccessInfo == [owners : SUBSET Client, acl : SUBSET (Client \cup {Everyone}),
               methods : UNION {[ms -> SUBSET Word] : ms \in SUBSET Method}]

PeerHasOneOfAccesses(c, contexts) == c \in contexts

Ownership(c, info) ==
  CASE info.owners = {} -> "IdentityDoesNotHaveOwner"
    [] PeerHasOneOfAccesses(c, info.owners) -> "ApplicationIsOwner"
    [] OTHER -> "ApplicationIsNotOwner"

PeerAllowed(c, info) ==
  \/ Ownership(c, info) = "ApplicationIsOwner"
  \/ info.acl # {} /\ (Everyone \in info.acl \/ PeerHasOneOfAccesses(c, info.acl))

IsKeychainWidget(c) == c = Keychain

\* SignonIdentityAdaptor::store() and remove()
MayChange(c, info) ==
  Ownership(c, info) = "ApplicationIsNotOwner" => IsKeychainWidget(c)

\* Variant: only the first two tests, as for a mechanism that is one word.
GrantedIfListed(info, method, words) ==
  IF DOMAIN info.methods = {} \/ method \in DOMAIN info.methods THEN words ELSE {}

\* checkMethodAndMechanism(): the words of the mechanism that may be used, none
\* if it is refused.  Nothing listed means that anything goes.
Granted(info, method, words) ==
  IF DOMAIN info.methods = {} THEN words
  ELSE IF method \notin DOMAIN info.methods THEN {}
  ELSE IF info.methods[method] = {} THEN words
  ELSE words \cap info.methods[method]
=============================================================================
