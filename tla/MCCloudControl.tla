--------------------------- MODULE MCCloudControl ---------------------------
(* CloudControl for TLC: the kinds of the commands, in creation order.     *)
EXTENDS CloudControl

Mixed == <<"auth", "queue", "background", "action">>

BackgroundQueue      == <<"background", "queue">>

ReorderFirst         == <<"reorder", "action">>

NoCommands           == <<>>
=============================================================================
