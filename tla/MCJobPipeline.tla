---------------------------- MODULE MCJobPipeline ----------------------------
EXTENDS JobPipeline, TLC

\* Requests, workers, users and jobs are interchangeable; used only by safety
\* runs.
Symmetry == Permutations(Reqs) \cup Permutations(Workers)
              \cup Permutations(JobIds) \cup Permutations(Users)
=============================================================================
