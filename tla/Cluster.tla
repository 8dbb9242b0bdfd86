------------------------------ MODULE Cluster ------------------------------
(***************************************************************************)
(* The vocabulary the reconciliation modules share: resource keys, the     *)
(* tables a controller hands to the tracking client, the objects stored by *)
(* the API server and the custom resource (the owner) that controls them.  *)
(***************************************************************************)
EXTENDS Naturals, Sequences, FiniteSets

CONSTANTS
  Keys,         \* resource keys: kind, namespace and name of an object
  Manifest,     \* the keys a reconcile may apply, in the order it applies them
  Optional,     \* keys applied only while the owner's spec enables them
  CRDs,         \* keys of CustomResourceDefinitions
  Namespaced,   \* keys of namespaced objects; the others are cluster-scoped
  Kinds,        \* kinds (GVKs) of the keys
  kindOf,       \* the kind of each key
  CleanupKinds, \* the kinds CleanupOrphans is asked to look at
  Unserved,     \* cleanup kinds whose CRD is not installed
  AllowList,    \* for restricted cluster-scoped kinds, the keys cleanup may delete
  Uids,         \* identities of successive incarnations of the owner
  NoUid,        \* no owner, or no controller reference
  Foreign,      \* the controller reference of somebody else's owner
  Absent        \* there is no object with this key

Applied == {Manifest[i] : i \in 1..Len(Manifest)}

ASSUME KeysAssumption ==
  /\ Manifest \in Seq(Keys)
  /\ Optional \subseteq Applied
  /\ CRDs \subseteq Keys
  /\ Namespaced \subseteq Keys
  /\ kindOf \in [Keys -> Kinds]
  /\ CleanupKinds \subseteq Kinds
  /\ Unserved \subseteq CleanupKinds
  /\ AllowList \in [DOMAIN AllowList -> SUBSET Keys]

\* No object of a kind that is not served can exist.
ASSUME UnservedAssumption == \A k \in Applied : kindOf[k] \notin Unserved

ASSUME IdentityAssumption ==
  /\ NoUid \notin Uids
  /\ Foreign \notin Uids
  /\ NoUid # Foreign
  /\ Absent \notin [ctrl : Uids \cup {NoUid, Foreign}, labelled : BOOLEAN]

\* An object: the controller reference it carries and whether it has the
\* owner label. The label holds the owner's name, which survives the owner's
\* deletion and recreation; the controller reference holds its uid.
Object == [ctrl : Uids \cup {NoUid, Foreign}, labelled : BOOLEAN]

\* Objects that somebody other than the operator may create under key k while
\* the owner is o. The controller reference may be a copy of the operator's
\* (the case the allow list is for), except on a CRD.
OthersObject(k, o) ==
  [ctrl : {NoUid, Foreign} \cup (IF k \in CRDs THEN {} ELSE {o.uid}),
   labelled : BOOLEAN]

\* A version of the owner: which optional keys its spec enables.
Owner == [uid : Uids \cup {NoUid}, spec : SUBSET Optional]

NoOwner == [uid |-> NoUid, spec |-> {}]

\* The keys a reconcile of spec s applies.
Desired(s) == (Applied \ Optional) \cup s

(***************************************************************************)
(* ApplyOwned: SetOwnership followed by a server-side apply                *)
(***************************************************************************)

\* The API server refuses a second controller reference on an object. CRDs
\* are applied without one.
Appliable(k, o) == (o # Absent /\ o.ctrl = Foreign) => k \in CRDs

\* Mutant of AppliedObject: CRDs get a controller reference too.
AppliedWithController(k, o, u) == [ctrl |-> u, labelled |-> TRUE]

\* The object that a successful apply for the owner uid u leaves behind. A
\* reference that an earlier incarnation's apply set belongs to the same
\* field manager and is replaced.
AppliedObject(k, o, u) ==
  [ctrl |-> IF k \notin CRDs THEN u ELSE IF o = Absent THEN NoUid ELSE o.ctrl,
   labelled |-> TRUE]

(***************************************************************************)
(* The deletion rules of CleanupOrphans                                    *)
(***************************************************************************)

\* Namespaced objects and kinds without a restriction are always allowed.
IsAllowed(k) ==
  \/ k \in Namespaced
  \/ kindOf[k] \notin DOMAIN AllowList
  \/ k \in AllowList[kindOf[k]]

Deletable == {k \in Keys : kindOf[k] \in CleanupKinds /\ IsAllowed(k)}
=============================================================================
