---------------------------- MODULE MCChannelSync ----------------------------
(***************************************************************************)
(* Instances of ChannelSync for TLC.                                       *)
(***************************************************************************)
EXTENDS ChannelSync

Leading == CHOOSE u \in Uids : TRUE

\* Every calendar, up to a renaming of the uids: what one may start with.
UpToRenaming ==
  {f \in Feed : \A u \in Uids \ {Leading} :
     f[u] # NoStay => f[Leading] # NoStay /\ f[Leading].from < f[u].from}
=============================================================================
