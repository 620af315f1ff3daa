----------------------------- MODULE MCBusServer -----------------------------
(* Small instances of BusServer: who connects, and with which hellos. *)
EXTENDS BusServer

CONSTANTS c1, c2, c3, s1, s2, n1, n2, k1, k2

Agent(c, s, n, k) == [conn |-> c, role |-> "agent", sid |-> s, name |-> n, nonce |-> k]
Control(c, s, k) ==
    [conn |-> c, role |-> "control", sid |-> s, name |-> NoName, nonce |-> k]

\* c1 listens as s1.  c2 comes back as s1, is a stranger with another nonce, or
\* is a helper of s1.  c3 listens as s2 or is another helper of s1.
MCHellos ==
    {Agent(c1, s1, n1, k1),
     Agent(c2, s1, n1, k1), Agent(c2, s1, n2, k2), Control(c2, s1, k1),
     Agent(c3, s2, n2, k2), Control(c3, s1, k1)}

\* Without strangers: a listener, its successor, and a watcher or a helper.
MCLiveHellos ==
    {Agent(c1, s1, n1, k1), Agent(c2, s1, n1, k1),
     Agent(c3, s2, n2, k2), Control(c3, s1, k1)}

\* A listener, a helper that disconnects it, and a peer that stops reading.
MCStallHellos ==
    {Agent(c1, s1, n1, k1), Control(c2, s1, k1), Agent(c3, s2, n2, k2)}
=============================================================================
