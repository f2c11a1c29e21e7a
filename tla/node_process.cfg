\* Two nodes, two writing runs of gen_certs.py, a stop, a deletion of certs/; the app
\* of one of the nodes is served twice in a process.
SPECIFICATION Spec
CONSTANTS
    NodeIds <- TwoNodes
    MaxRuns = 2
    MaxKeys = 2
    MaxStarts = 2
    Reused = {"node-1"}
    MaxCrashes = 1
    MaxWipes = 1
INVARIANTS DataStaysReadable CertsOfOneRun PeersTrustEachOther OneLoop
PROPERTIES StopIsObeyed BootsEnd DataComesBack
