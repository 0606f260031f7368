----------------------------- MODULE MCConsole -----------------------------
EXTENDS Console

\* Two different characters on one of the lines, or both lines at once, one of
\* them with empty lines only.
MCAlphabets == { [jtag |-> {}, rs232 |-> {"a", "b", "eol"}],
                 [jtag |-> {"a", "b", "eol"}, rs232 |-> {}],
                 [jtag |-> {"eol"}, rs232 |-> {"a", "eol"}],
                 [jtag |-> {"a", "eol"}, rs232 |-> {"eol"}] }

\* An answer of one string.
MCReplies == {<<2>>}

=============================================================================
