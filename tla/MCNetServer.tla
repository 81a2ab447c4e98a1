---------------------------- MODULE MCNetServer ----------------------------
(***************************************************************************)
(* Two clients; two core threads, one of them for the event loop, and room *)
(* for one thread more.                                                    *)
(***************************************************************************)
EXTENDS NetServer

\* The pool with the plain protocol, a thread for each connection with the one of MySQL.
Servers == {<<"pool", "plain">>, <<"per_connection", "mysql">>}
=============================================================================
