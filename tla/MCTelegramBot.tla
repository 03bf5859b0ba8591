--------------------------- MODULE MCTelegramBot ---------------------------
(* Instances of TelegramBot for TLC: a host with two actors, one of which   *)
(* opens an inert menu entry of its own.                                    *)
EXTENDS TelegramBot, TLC

Host == [level |-> <<"host">>, recipient |-> <<"head">>, id |-> <<"h">>]
Actor == [level |-> <<"actor">>, recipient |-> <<"h">>, id |-> <<"a">>]
Back == [level |-> <<"system">>, recipient |-> <<"head">>, id |-> <<"_back">>]
Page == [level |-> None, recipient |-> <<"h">>, id |-> <<"_page_0">>]

MCMember == {Host, Actor, Back, Page}
MCMenu == {{Host}, {Back, Actor, Page}, {Back, Page}}

AllFaults == FaultKinds
AskFaults == {"askFails"}

Symmetry == Permutations(Update)
=============================================================================
