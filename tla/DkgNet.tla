------------------------------- MODULE DkgNet -------------------------------
(***************************************************************************)
(* What the coordinator and the clients of a DKG session (packages/rust/   *)
(* dkg) share: their messages, over the FROST key generation they run.      *)
(* Messages that a client only displays (Info, Error) are left out.        *)
(***************************************************************************)
EXTENDS SessionNet, FrostDkg

ClientMsg ==
    [type : {"Login", "AnnounceDKGSession", "JoinDKGSession", "Logout", "Close"}]
      \cup [type : {"Round1Submit", "Round2Submit"}, gen : Generation]
      \cup [type : {"FinalizeSubmit"}, vk : Key]

ServerMsg ==
    [type : {"LoginOk", "DKGSessionCreated", "ReadyRound1", "ReadyRound2", "Close"}]
      \cup [type : {"Round1All", "Round2All"}, pkgs : Packages]
      \cup [type : {"Finalized"}, vk : Key]

NetTypeOK ==
    /\ started \in [Participants -> 0..MaxStarts]
    /\ phase \in [Participants -> Phase]
    /\ \A p \in Participants : phase[p] = "running" => started[p] # 0
    /\ toServer \in [Conns -> Seq(ClientMsg)]
    /\ toClient \in [Participants -> Seq(ServerMsg)]
=============================================================================
