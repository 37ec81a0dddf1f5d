---------------------------- MODULE MCAppletService ----------------------------
(* AppletService on two applets: the dock activates one, the other, and the  *)
(* first again; any process may also be a list.                              *)
EXTENDS AppletService
MCApp == <<"a", "b", "a">>
MCApp2 == <<"a", "b">>
=============================================================================
