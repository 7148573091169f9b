---------------------------- MODULE MCIcqClient ----------------------------
(***************************************************************************)
(* Instances of IcqClient for TLC.                                         *)
(***************************************************************************)
EXTENDS IcqClient, PacketCode

NoPackets == <<>>
ContactList == <<"CMD_CONT_LIST">>

NoWrites == {}
Messages == {<<"CMD_SENDM">>}

\* One packet of each kind of answer, and two messages in one packet.
Services == {<<"SRV_LOGIN_REPLY">>, <<"SRV_X2">>, <<"SRV_NEW_UIN">>,
             <<"SRV_SYS_DELIVERED_MESS">>, <<"SRV_RAND_USER">>,
             <<"SRV_GO_AWAY">>, <<"SRV_BAD_PASS">>,
             <<"SRV_SYS_DELIVERED_MESS", "SRV_X2">>}

\* The end of the old messages, and the answer to a login that is put off.
MessagesAndBusy == {<<"SRV_X2">>, <<"SRV_TRY_AGAIN">>}

BusyServer == {<<"SRV_TRY_AGAIN">>}

\* Some bytes for the table, and packets with each number of bytes beyond a
\* DWORD; the random place is the first, or the last that len allows.
SomeTable == [i \in 0 .. 255 |-> (167 * i + 89) % 256]
SomePacket(len) == [i \in 0 .. len + 2 |-> (31 * i + 201) % 256]

ASSUME ScrambleLosesNothing
ASSUME \A len \in 25 .. 28, r2 \in {0, 77, 255} : \A r1 \in {24, len - 1} :
         ReadBack(SomePacket(len), len, r1, r2)
=============================================================================
