----------------------------- MODULE MCToolCalls -----------------------------
(* Small instances of ToolCalls for TLC.                                   *)
EXTENDS ToolCalls

\* A cached request as root and not, and one as root past the cache on a path
\* that only paths: ["/"] covers.
FewRequests == {<<"disks/usage", "listed", TRUE>>, <<"disks/usage", "listed", FALSE>>,
                <<"files/read", "other", TRUE>>}
=============================================================================
