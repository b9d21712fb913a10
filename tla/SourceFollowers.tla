--------------------------- MODULE SourceFollowers ---------------------------
(***************************************************************************)
(* What follows the content of a source once a refresh has stored it: the  *)
(* rule sets linked to its providers and the node groups linked to its     *)
(* groups.  The two share no row and no request.                           *)
(***************************************************************************)
EXTENDS LinkedRuleSets, SourceNodeGroups

(* What is linked to a source follows its content: the rule sets, and the  *)
(* node groups.                                                            *)
FollowersFollow == LinkedRowsFollow /\ SourceGroupsFollow
=============================================================================
