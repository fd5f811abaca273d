------------------------------ MODULE MCAppliance ------------------------------
(***************************************************************************)
(* What the server runs on its box besides itself, for one run of TLC: the *)
(* kiosk on the TV and the tunnels to the outside.  These share no state,  *)
(* so in one behaviour only the part the first state chose takes steps,    *)
(* and the states add up instead of multiplying.                           *)
(***************************************************************************)
EXTENDS TvCast, Tunnels

VARIABLE part
parts == <<vars, tunnelVars, part>>

ApplianceInit ==
    /\ part \in {"tv", "tunnels"}
    /\ Init /\ (part = "tv" \/ ~hdmi)
    /\ TunnelsInit /\ (part = "tunnels" \/ hs = "down")

ApplianceNext ==
    \/ part = "tv" /\ Next /\ UNCHANGED <<tunnelVars, part>>
    \/ part = "tunnels" /\ TunnelsNext /\ UNCHANGED <<vars, part>>

\* A part that takes no steps stays in its initial state, where nothing that is
\* fair is enabled.
ApplianceSpec ==
    /\ ApplianceInit /\ [][ApplianceNext]_parts
    /\ Fairness /\ TunnelsFairness
=============================================================================
