------------------------------ MODULE MCGeeOrm ------------------------------
(***************************************************************************)
(* A small instance of GeeOrm: two rows, a model with two fields of which  *)
(* an older table lacks one and has another, hooks before and after.       *)
(***************************************************************************)
EXTENDS GeeOrm

CONSTANTS k1, k2, kept, added, removed, v1   \* model values

MCKeys == {k1, k2}
MCColumns == {kept, added, removed}
MCFields == {kept, added}
MCValues == {v1}
MCWheres == {{k1}}
MCBatches == {{k1}, {k1, k2}}
MCHooks == {"BeforeInsert", "BeforeQuery", "AfterQuery", "BeforeDelete", "AfterDelete"}

MCTable(cols, keys) == [cols |-> cols, pk |-> TRUE, rows |-> [k \in keys |-> [f \in cols |-> v1]]]
MCInitTables ==
    {NoTable, MCTable(MCFields, {k1, k2}), MCTable({kept}, {k2}),
     MCTable({kept, removed}, {k1, k2}), MCTable(MCColumns, {k1})}
=============================================================================
