------------------------------- MODULE SignNet -------------------------------
(***************************************************************************)
(* What the coordinator and the signers of a signing session (the ws       *)
(* command of packages/rust/signing) share: the FROST signing they run,    *)
(* over one message, and the messages they exchange.  Info is left out.    *)
(***************************************************************************)
EXTENDS SessionNet, FrostSign

ClientMsg ==
    [type : {"Login", "JoinSignSession", "Close"}]
      \cup [type : {"AnnounceSignSession"}, hashed : BOOLEAN]
      \cup [type : {"SignRound1Submit"}, gen : Generation]
      \cup [type : {"SignRound2Submit"}, share : SigningPackage]

ServerMsg ==
    [type : {"LoginOk", "SignSessionCreated", "SignReadyRound1", "Error", "Close"}]
      \cup [type : {"SignSigningPackage"}, pkg : SigningPackage]
      \cup [type : {"SignatureReady"}, signature : SigningPackage]

NetTypeOK ==
    /\ started \in [Participants -> 0..MaxStarts]
    /\ phase \in [Participants -> Phase]
    /\ \A p \in Participants : phase[p] = "running" => started[p] # 0
    /\ toServer \in [Conns -> Seq(ClientMsg)]
    /\ toClient \in [Participants -> Seq(ServerMsg)]
=============================================================================
