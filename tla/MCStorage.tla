----------------------------- MODULE MCStorage -----------------------------
(***************************************************************************)
(* Small instances of Storage for TLC.                                     *)
(***************************************************************************)
EXTENDS Storage

\* Every list that is declared is downloaded, once.
ASSUME AllDownloaded == IsInjective(DownloadOrder) /\ Range(DownloadOrder) = DOMAIN TheLists

\* The instances keep the order of Download.
ASSUME InOrder ==
    \A i, j \in DOMAIN Order : i < j =>
        \E m, n \in DOMAIN DownloadOrder :
            m < n /\ DownloadOrder[m] = Order[i] /\ DownloadOrder[n] = Order[j]

\* Lists with and without reloads by name, and behind them one that is never answered for
ThreeLists == <<"Sites", "VPC", "Links">>
FirstTwo    == {"Sites", "VPC"}
LinksBroken == {"Links"}

OneOfEach == [change |-> 1, fault |-> 1]

=============================================================================
