------------------------------ MODULE MCCalls ------------------------------
(* Instances of the call modules for TLC.                                  *)
EXTENDS KernelCalls, StorageCalls, CodeCalls, SearchCalls
Next == NextKernel \/ NextStorage \/ NextCode \/ NextSearch \/ NextScan \/ Return
Spec == Init /\ [][Next]_vars
\* Graph scans for the rows of a sphere alone.
SphereSpec == Init /\ [][CallGraphSphere \/ Return]_vars
\* Values that f16 holds and that lie within the start values of its minima.
MCPatterns ==
    [real |-> {"mixed", "positive", "negative"}, u8 |-> {"bytes", "ones"}, u64 |-> {"words"}]
MCIndices == 0..4
MCDims == {1, 959, 960, 961, 1280, 1281, 1920, 1921, 2560, 2561, 3840, 3841, 5120, 5121,
           7680, 7681, 7682, 10240, 10241, 15360, 15361, 30000, 60000}
MCDegrees == {1, 32, 512}
MCDirectorySizes == {1, 2, 2034, 2035, 2036, 2037, 2038, 4100}
=============================================================================
