------------------------ MODULE MCAsyncTextureCache ------------------------
(* AsyncTextureCache on a small instance.                                   *)
EXTENDS AsyncTextureCache

=============================================================================
