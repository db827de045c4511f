---------------------------- MODULE WinTransport ----------------------------
(***************************************************************************)
(* A channel on Windows from its beginning: socketpair() (WinSocketPair)   *)
(* makes the two connected sockets among rivals that connect to the same   *)
(* path, and then one direction of the channel (WinChannel) carries        *)
(* messages over them.  If socketpair() fails there is no channel.         *)
(***************************************************************************)
EXTENDS WinSocketPair, WinChannel

TransportInit == Init /\ ChannelInit

Pair == Next /\ UNCHANGED channel

\* duplex() has returned, and each end is in use somewhere.  What one end writes is
\* what the other reads only if the two are connected.
Connected == at = "pair" /\ peer = Us

Transfer == Connected /\ ChannelNext /\ UNCHANGED vars

TransportSpec ==
    TransportInit /\ [][Pair \/ Transfer]_<<vars, channel>>

\* socketpair() goes on by itself, and the runtimes go on with a transfer while the
\* system can.
FairTransport ==
    /\ TransportSpec
    /\ WF_vars(Attempt /\ UNCHANGED channel)
    /\ WF_channel(Connected /\ Write /\ UNCHANGED vars)
    /\ WF_channel(Connected /\ RecvWork /\ UNCHANGED vars)
=============================================================================
