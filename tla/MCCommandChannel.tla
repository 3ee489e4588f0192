-------------------------- MODULE MCCommandChannel --------------------------
(* Small instances of CommandChannel for TLC. *)
EXTENDS CommandChannel, TLC

MixedKinds == [c \in Cmds |-> IF c = 1 THEN "reboot" ELSE "other"]
PlainKinds == [c \in Cmds |-> "other"]
HandlerSymmetry == Permutations(Handlers)
=============================================================================
