-------------------------- MODULE MCAdapterMemory --------------------------
(* A small instance of AdapterMemory for TLC: three Claude sessions and a *)
(* ledger of two.                                                         *)
EXTENDS AdapterMemory

Start == [type |-> "step_start"]
Says(part) == [type |-> "text", part |-> part]
Finish(reason) == [type |-> "step_finish", reason |-> reason]
ScriptsDef ==
  { <<Start, Says("plan"), Finish("tool-calls"), Start, Says("answer"), Says("more"), Finish("stop")>>,
    <<Start, Says("half"), Finish("error")>> }
SessionSymmetry == Permutations(Sessions) \union Permutations(Procs) \union Permutations(Chats)
=============================================================================
