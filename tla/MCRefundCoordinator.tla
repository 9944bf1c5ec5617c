------------------------ MODULE MCRefundCoordinator ------------------------
(* Small instances of the coordinator: who calls it, for which scope, with *)
(* how much.                                                               *)
EXTENDS RefundCoordinator

NoLines == {}
NoLineValue == [l \in NoLines |-> 1]

(* A command is named for who runs it; "part" and "rest" are direct calls  *)
(* for two scopes whose amounts do not fit the order together.             *)
CallerOf == [c \in Commands |-> IF c \in {"part", "rest"} THEN "api" ELSE c]
ScopeOf == [c \in Commands |-> IF c \in {"part", "rest"} THEN c ELSE "full"]
AskOf == [c \in Commands |-> CASE c = "part" -> 40
                               [] c = "rest" -> 70
                               [] OTHER -> 0]
AllScopes == {"full"} \union {c \in {"part", "rest"} : c \in Commands}
=============================================================================
