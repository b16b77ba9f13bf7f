---------------------------- MODULE EngineClaims ----------------------------
(***************************************************************************)
(* What a comment of LogStore.h says of pointers, without the exception    *)
(* that EngineProperties makes for a reload that failed.                   *)
(***************************************************************************)
EXTENDS EngineProperties

(* "Indexes can safely reference via raw pointers": at the menu, where     *)
(* queries follow them, every pointer of an index points into memory the   *)
(* store still has.                                                        *)
PointersAlwaysLive == pc = "menu" => \A p \in index : p.gen = gen
=============================================================================
