----------------------------- MODULE MCRemoteAuth -----------------------------
(* RemoteAuth for TLC.  Two formats of one number, and a short number that  *)
(* must be equal as a whole; the white list has both, or nothing.           *)
EXTENDS RemoteAuth

MCNumbers == {<<0, 7, 1>>, <<4, 9, 7, 1>>, <<1>>}
MCLists == {{}, {<<0, 7, 1>>, <<1>>}}
=============================================================================
