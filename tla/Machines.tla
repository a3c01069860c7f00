------------------------------ MODULE Machines ------------------------------
(***************************************************************************)
(* Several machines are checked in one run: `machine` says which of them a *)
(* behaviour is about.  It is picked in the first state and never changes, *)
(* and the variables of the other machines stay Unused.                    *)
(***************************************************************************)
CONSTANT Unused
VARIABLE machine

-----------------------------------------------------------------------------
(* Operations from which the deltas of the runs are built.                 *)

T(name, id) == [kind |-> "InternType", name |-> name, id |-> id]
R(name, id) == [kind |-> "InternRelation", name |-> name, id |-> id]
New(temp, name, type, attrs) ==
  [kind |-> "CreateObject", temp |-> temp, name |-> name, type |-> type,
   existence |-> "Alive", attrs |-> attrs]
Retype(ref, type) == [kind |-> "SetObjectType", object |-> ref, type |-> type]
=============================================================================
