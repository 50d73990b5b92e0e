------------------------------- MODULE MCPipe -------------------------------
(* An instance of Pipe for TLC. *)
EXTENDS Pipe, TLC

Symm == Permutations(Writer) \cup Permutations(Reader) \cup Permutations(Byte)
=============================================================================
