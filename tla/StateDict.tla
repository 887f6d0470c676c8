------------------------------ MODULE StateDict ------------------------------
(***************************************************************************)
(* The persistent state of the bot as the python code sees it: one dict    *)
(* per category, from an entry's name to its serialized payload, and the   *)
(* change sets that Engine._eval computes and StateStore.save_many takes.  *)
(*                                                                         *)
(* A dict is a total function into Value \cup {None}: None is what         *)
(* dict.get(name) returns for a name that is not there.  A change set is a *)
(* partial function: a name outside its domain is not changed, a name      *)
(* mapped to None is deleted.                                              *)
(***************************************************************************)

CONSTANTS
    Name,    \* entry names (of procs or of global variables)
    Value,   \* serialized payloads
    None     \* python's None

ASSUME NoneAssumption == None \notin Value

Entry == Value \cup {None}

Dict == [Name -> Entry]

EmptyDict == [n \in Name |-> None]

\* The names a dict really holds.
Keys(d) == {n \in Name : d[n] # None}

Changes == UNION {[S -> Entry] : S \in SUBSET Name}

\* A change set that changes nothing: python's {} (falsy).
NoChanges == [n \in {} |-> None]

\* state_s3._apply; also what FileStateStore.save_many does to its directory.
Apply(snapshot, changes) ==
    [n \in Name |-> IF n \in DOMAIN changes THEN changes[n] ELSE snapshot[n]]

=============================================================================
