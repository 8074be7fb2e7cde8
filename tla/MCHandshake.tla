---------------------------- MODULE MCHandshake ----------------------------
EXTENDS Handshake

MCSubs == {"on_version", "on_verack", "on_stop"}
MCTopic == [on_version |-> "version", on_verack |-> "verack", on_stop |-> "stop"]
MCSends == {"send_version", "send_verack"}

Good(c) == [magic |-> TRUE, command |-> c, length |-> IF c = "version" THEN 85 ELSE 0,
            checksum |-> TRUE, body |-> TRUE]
\* The exchange, and a header whose length is wrong.
MCInbound == <<Good("version"), Good("verack"), [Good("getaddr") EXCEPT !.length = 4]>>
=============================================================================
