----------------------------- MODULE MCRunCache -----------------------------
(***************************************************************************)
(* A small project for TLC: a declared source, a view or table on it, and  *)
(* a table on that.                                                        *)
(***************************************************************************)
EXTENDS RunCache, TLC

CONSTANTS src, top, out

OnlySource == {src}
OnlyTop    == {top}
TopAndOut  == {top, out}
TopMayBeAView == {{}, {top}}
ChainDeps  == top :> {src} @@ out :> {top}
=============================================================================
