------------------------------- MODULE MCReset -------------------------------
(***************************************************************************)
(* Reset for TLC: a workflow of A with all kinds of rows, one of B, a      *)
(* queue and a row of no owner.                                            *)
(***************************************************************************)
EXTENDS Reset, TLC

CONSTANTS A, B

Kinds ==
  [wa |-> "workflow_status", ia |-> "workflow_input", sa |-> "operation_outputs",
   ea |-> "workflow_events",
   wb |-> "workflow_status", ib |-> "workflow_input", sb |-> "operation_outputs",
   q |-> "queues", kv |-> "event_dispatch_kv"]
Rows == DOMAIN Kinds
Keys == [x \in Rows |-> CASE x \in {"wa", "ia", "sa", "ea"} -> 1
                          [] x \in {"wb", "ib", "sb"} -> 2
                          [] OTHER -> 0]
Whose == [x \in Rows |-> CASE x \in {"wa", "sa", "q"} -> A
                           [] x \in {"wb", "sb"} -> B
                           [] OTHER -> Null]

(* Schemas: before application names, with the first, with all of them,    *)
(* with the payload tables, and the latest.                                *)
Payload == {"workflow_input", "workflow_output"}
V99  == [tables |-> Table \ Payload, named |-> {}, cascade |-> TRUE]
V100 == [tables |-> Table \ Payload, named |-> {"workflow_status"}, cascade |-> TRUE]
V104 == [tables |-> Table \ Payload, named |-> applicationOwnedTables, cascade |-> TRUE]
V109 == [V104 EXCEPT !.tables = Table]
V125 == [V109 EXCEPT !.cascade = FALSE]
Ends    == {V99, V125}
Versions == {[V99 EXCEPT !.tables = {}], V99, V100, V104, V109, V125}

(* Databases of those rows, where the tables in named carry a name.        *)
Databases(named, S) ==
  [x \in Rows |-> IF x \notin S THEN Absent ELSE IF Kinds[x] \in named THEN Whose[x] ELSE Null]
FullOrUnnamed  == {Databases({}, Rows \ {"ia", "ib"}), Databases(applicationOwnedTables, Rows)}
AtAnyAge       == {Databases(named, S) : named \in {{}, {"workflow_status"}, applicationOwnedTables},
                                         S \in {Rows, Rows \ {"ia", "ib"}}}
(* Without the steps that name nobody though others do.                    *)
NamedAsTheyAre == {f \in AtAnyAge : ~(f["wa"] = A /\ f["sa"] = Null)}
                    \cup {Databases({"workflow_status"}, {"wa", "ea", "wb", "q", "kv"}),
                          [x \in Rows |-> Absent]}
(* Without B's payload and steps.                                          *)
Fewer      == Rows \ {"ib", "sb"}
OfFewer(f) == [x \in Fewer |-> f[x]]
FewerKinds == OfFewer(Kinds)
FewerKeys  == OfFewer(Keys)
FewerFull  == {OfFewer(f) : f \in FullOrUnnamed}

ARenamed  == {<<A, B>>}
None      == {}
Both      == {A, B}
=============================================================================
