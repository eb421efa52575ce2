----------------------------- MODULE ScopeNames -----------------------------
(***************************************************************************)
(* The names of endpoints and scopes (crates/fast2flow-contracts), and     *)
(* which scopes have a directory under the root of the indexes             *)
(* (normalize_under_root of crates/fast2flow-indexer).                     *)
(*                                                                         *)
(* A name is a sequence of characters: of letters and digits, of the four  *)
(* that the code treats in their own way, and of others.                   *)
(***************************************************************************)
EXTENDS Naturals, Sequences

CONSTANTS
    Character,      \* the characters of names
    Alphanumeric,   \* the letters and digits of ASCII
    EndpointPrefix, \* "endpoint", what is before the colon in the scope of an endpoint
    MaxEndpointId,  \* 255
    MaxScope,       \* 512
    LinkedOut       \* scopes whose directory is a link to outside the root

ASSUME PunctuationIsApart == {".", "_", "-", ":"} \cap Alphanumeric = {}

ASSUME CharactersAreKnown == Alphanumeric \cup {".", "_", "-", ":"} \subseteq Character

ASSUME PrefixIsAName == EndpointPrefix \in Seq(Alphanumeric) /\ EndpointPrefix # <<>>

(* 8 + 1 + 255 <= 512 *)
ASSUME ScopesAreLongEnough ==
    /\ MaxEndpointId \in Nat /\ MaxScope \in Nat
    /\ Len(EndpointPrefix) + 1 + MaxEndpointId <= MaxScope

NameChar == Alphanumeric \cup {".", "_", "-"}

AllNameChars(s) == \A i \in DOMAIN s : s[i] \in NameChar

(* Mutant: the shape is not looked at. *)
ValidEndpointIdAnyShape(id) == id # <<>> /\ Len(id) <= MaxEndpointId /\ AllNameChars(id)

ValidEndpointId(id) ==
    /\ id # <<>> /\ Len(id) <= MaxEndpointId
    /\ AllNameChars(id)
    /\ id[1] \in Alphanumeric /\ id[Len(id)] \in Alphanumeric
    /\ \A i \in 2 .. Len(id) : id[i - 1] # "." \/ id[i] # "."

ValidSegment(s) ==
    /\ s # <<>>
    /\ AllNameChars(s)
    /\ s[1] # "." /\ s[Len(s)] # "."

(* Two segments; as no segment has a colon, the scope has no second one. *)
ValidScope(s) ==
    /\ Len(s) <= MaxScope
    /\ \E colon \in DOMAIN s :
          /\ s[colon] = ":"
          /\ ValidSegment(SubSeq(s, 1, colon - 1))
          /\ ValidSegment(SubSeq(s, colon + 1, Len(s)))

EndpointScope(id) == EndpointPrefix \o <<":">> \o id

(* normalize_under_root: a valid scope is a directory in the root, unless   *)
(* that is a link to somewhere else.  A host that cannot canonicalize the   *)
(* root, as under WASI, does not look at links: there LinkedOut is empty.   *)
UnderRoot(scope) == ValidScope(scope) /\ scope \notin LinkedOut
=============================================================================
