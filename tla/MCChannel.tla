----------------------------- MODULE MCChannel -----------------------------
EXTENDS Channel

MCSubs == {"on_address", "on_stop"}
MCTopic == [on_address |-> "addr", on_stop |-> "stop"]
MCSends == {"ping"}

Good(c) == [magic |-> TRUE, command |-> c, length |-> IF c = "version" THEN 85 ELSE 0,
            checksum |-> TRUE, body |-> TRUE]
\* A message, one that cannot be parsed, and one whose checksum is wrong.
MCInbound == <<Good("addr"), [Good("addr") EXCEPT !.body = FALSE],
               [Good("addr") EXCEPT !.checksum = FALSE]>>
=============================================================================
