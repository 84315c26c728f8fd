-------------------------- MODULE MCClientRequest --------------------------
(* One client and the server: the start of the client, the six loads of    *)
(* the dashboard and a few buttons.                                        *)
EXTENDS ClientRequest

\* A remembered user who may press everything.
RememberedButtons == LoginPage \cup DashboardPage

\* A user who is not remembered and registers.
NewUserButtons == {Register}
=============================================================================
