------------------------- MODULE MCClientSocketMgr -------------------------
(* Instances of ClientSocketMgr for TLC. *)
EXTENDS ClientSocketMgr

\* Discord is enabled; the host may not resolve, credentials may be missing.
EnabledConfigs == {f \in Config : f.enabled}
\* Discord.Server.Enable = 0, as the configuration file is distributed.
DisabledConfigs == {f \in Config : ~f.enabled}

AnyPackets == AuthResponses \cup Pongs \cup Rejected
WellFormedPackets == {"authOk", "authDenied", "pong", "otherOpcode"}
SecondIsLarge == {2}
=============================================================================
