------------------------------ MODULE MCWatcher ------------------------------
(***************************************************************************)
(* Small instances of ActivityWatcher for TLC: which blocks can be mined.   *)
(***************************************************************************)
EXTENDS ActivityWatcher

Holding(txs) == [txs |-> txs, lapsed |-> 0]

Twice    == Holding(<<"queued", "queued">>)
StepUp   == Holding(<<"stepUp">>)
Executed == Holding(<<"executed">>)
Mixed    == [txs |-> <<"skipped", "executed">>, lapsed |-> 1]
AndBase  == Holding(<<"stepUp", "base">>)
Queued   == Holding(<<"queued">>)
ExecuteAndCancel == Holding(<<"executed", "cancelled">>)
Cancelled == Holding(<<"cancelled">>)

QueueLife == {Twice, StepUp, Executed, Mixed, ExecuteAndCancel}
EveryLog == {StepUp, AndBase, Queued, Cancelled}

=============================================================================
