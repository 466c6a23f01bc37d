--------------------------- MODULE MCCore1Launch ----------------------------
(* Model-checking instances of Core1Launch. *)
EXTENDS Core1Launch

\* 0 and 1 are the handshake's markers, 2 .. 4 addresses, 5 a message.
MCWord == 0 .. 5
MCParams == {<<2, 3, 4>>, <<4, 2, 2>>}
MCMessage == {1, 5}

\* The words that are in the mailboxes when core 1 is held.  Up to three of core
\* 0's leave core 1's wait loop anywhere in a capture; four may complete one.
MCEarlyMost == [c \in Core |-> IF c = 0 THEN {1, 2} ELSE {0, 2}]
=============================================================================
