--------------------------- MODULE MCBlobDownload ---------------------------
(***************************************************************************)
(* Instances of BlobDownload for TLC. Two pulls are a first one and one    *)
(* that joins or follows; two parts of two units let a part be missing,    *)
(* empty, partly there and complete beside another.                        *)
(***************************************************************************)
EXTENDS BlobDownload, TLC

PullSymmetry == Permutations(Pulls)

=============================================================================
