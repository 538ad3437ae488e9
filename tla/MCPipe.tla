------------------------------- MODULE MCPipe -------------------------------
(* A ring of three and more bytes than fit go round it several times.       *)
EXTENDS Pipe
=============================================================================
