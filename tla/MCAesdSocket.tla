---------------------------- MODULE MCAesdSocket ----------------------------
(* TLC instances of AesdSocket.                                            *)
EXTENDS AesdSocket, TLC

CONSTANTS c1, c2, S

MCHeader == <<S, S>>

\* Two plain packets, one of them long enough to be cut.
TwoTexts == c1 :> <<c1, NL>> @@ c2 :> <<c2, c2, NL>>

\* One plain packet.
OneText == c1 :> <<c1, NL>>

\* One packet has two lines, the other is a seek command; TCP cuts them anywhere.
LinesAndSeek == c1 :> <<c1, NL, c1, NL>> @@ c2 :> <<S, S, c2, NL>>

=============================================================================
