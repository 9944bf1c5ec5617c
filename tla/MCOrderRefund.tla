--------------------------- MODULE MCOrderRefund ---------------------------
(* Small mixes of refund paths on one order of two lines.                  *)
EXTENDS OrderRefund, TLC

TwoLines == {"l1", "l2"}
LinePrices == "l1" :> 60 @@ "l2" :> 40
NoLines == {}
NoPrices == [l \in NoLines |-> 1]
OneScope == {"full"}

(* Commands and requests are named for what they run; a second of a kind   *)
(* carries a suffix.                                                       *)
CallerOf == [c \in Commands |-> c]
FullScope == [c \in Commands |-> "full"]
AskAll == [c \in Commands |-> 0]

KindOf == [r \in Requests |-> CASE r = "refund2" -> "refund"
                                [] r = "line2"   -> "line"
                                [] OTHER         -> r]
TargetOf == [r \in Requests |-> IF r = "line2" THEN "l2" ELSE "l1"]
OwnKey == [r \in Requests |-> r]

(* Amounts that do not fit the order together; and equal ones.             *)
Partly == [r \in Requests |-> CASE r \in {"refund", "wallet"} -> 70
                                [] r \in {"refund2", "goodwill"} -> 50
                                [] OTHER -> 0]
Alike == [r \in Requests |-> IF r \in {"refund", "refund2"} THEN 40 ELSE 0]

(* One issue for each line, granted what the line cost.                    *)
Naming == [i \in Issues |-> IF i = "i1" THEN {"l1"} ELSE {"l2"}]
Granting == [i \in Issues |-> IF i = "i1" THEN 60 ELSE 40]
=============================================================================
