----------------------------- MODULE MCReceiver -----------------------------
EXTENDS Receiver

\* Both formats and both kinds of port: with proper frames, with any frames, with a full
\* FIFO, and with primitives that are deactivated, while the port fails.
MCModes == {m \in Mode : <<m.fill, m.fails, m.stops, m.proper>> \in
              {<<FALSE, FALSE, FALSE, TRUE>>, <<FALSE, FALSE, FALSE, FALSE>>,
               <<TRUE, TRUE, FALSE, FALSE>>, <<FALSE, TRUE, TRUE, FALSE>>}}

=============================================================================
