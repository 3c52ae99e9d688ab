--------------------------- MODULE MCFirmwareBoot ---------------------------
(* Small instances of FirmwareBoot for TLC. *)
EXTENDS FirmwareBoot

\* A good update with and without its digest, one whose image does not boot,
\* one with another's digest.
MCUpdates == { [image |-> "good",   digest |-> "good"],
               [image |-> "good",   digest |-> None],
               [image |-> "faulty", digest |-> "faulty"],
               [image |-> "wrong",  digest |-> "good"] }

\* The build of the repository, which sets neither option.
RepositoryBuild == {[rollback |-> FALSE, kept |-> FALSE]}
=============================================================================
