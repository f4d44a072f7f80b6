--------------------------- MODULE MC_FileTransfer ---------------------------
EXTENDS FileTransfer, TLC

\* The goroutines of the client are alike.
ParserSymmetry == Permutations(Parsers)

\* Bound: after its disconnect event the client is followed while results are on their
\* way to it.  It sends nothing more then, and the server does with what was sent
\* what it does when the connection breaks under a client that is still live.
Followed == clientcon = "live" \/ (clientcon = "down" /\ toCli # <<>>)

=============================================================================
