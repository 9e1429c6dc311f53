---------------------------- MODULE MCTcpServer ----------------------------
(* Small instances of TcpServer. *)
EXTENDS TcpServer

MCNone == <<>>
MCPool == <<"io">>
=============================================================================
