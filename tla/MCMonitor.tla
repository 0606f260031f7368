----------------------------- MODULE MCMonitor -----------------------------
EXTENDS Monitor, TLC

MCHex == "0" :> 0 @@ "1" :> 1 @@ "2" :> 2 @@ "E" :> 14

MCSource == {<<1, 1>>, <<2, 1>>}

\* Lines of every command, with the right arguments and with wrong ones, and of
\* no command.
MCDelivered == {<<"nl">>,
                <<"W", "1", " ", "1", "2", " ", "0", "nl">>,
                <<" ", "R", "2", " ", " ", "E", "nl">>,
                <<"W", "nl">>,
                <<"R", "1", "1", "nl">>,
                <<"R", "1", "R", "nul">>,
                <<"E", "1", " ", "1", " ", "2", " ", "1", "nl">>,
                <<"E", "1", "nl">>, <<"E", "0", "nl">>}

MCFrames == {<<"nl", "?", "nl", "end">>,
             <<"R", "1", " ", "end">>,
             <<"R", "1", " ", "1", "nl", "W", "2", " ", "E", "nul", "nl", "end">>,
             <<"W", "4", " ", "1", " ", "1", " ", "R", "nl", "end">>,
             <<"R", "4", " ", "0", " ", "1", " ", "0", " ", "1", " ", "2", "nl", "end">>}

=============================================================================
