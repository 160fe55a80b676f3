------------------------ MODULE MCPipelineRefinement ------------------------
EXTENDS PipelineRefinement, TLC

Symmetry == Permutations(Threads) \cup Permutations(Sessions)
=============================================================================
