-------------------------- MODULE MCDeviceMetadata --------------------------
(***************************************************************************)
(* Commands for model checking DeviceMetadata.                              *)
(***************************************************************************)
EXTENDS DeviceMetadata

\* Two connections over two services, each with its two reports, which can
\* arrive in any order and after the connection has ended; two updates, one
\* of which expires, answered by either connection; the expiry of a service.
\* The third connection is one of the cloud2cloud connector, which names no
\* service.  One report says DISABLED, which no gateway of the hub does.
MCCommand ==
  {Connect("c1", 1, "s1", 1), Disconnect("c1", 4), Connect("c2", 1, "s2", 3),
   Connect("c3", 1, None, 0), Disconnect("c3", 2)}
   \cup {Synchronization("c1", 2, "SYNCING", 1), Synchronization("c1", 3, "IN_SYNC", 2),
         Synchronization("c2", 2, "SYNCING", 3), Synchronization("c2", 3, "IN_SYNC", 4),
         Synchronization("c2", 4, "DISABLED", 0)}
   \cup {ChangeTwin("disable", "a", 0), ChangeTwin("force", "b", 1)}
   \cup {ConfirmTwin("disable", "a", "c2", 3),
         ConfirmTwin("force", "b", "c1", 3), ConfirmTwin("enable", "b", "c2", 3)}
   \cup {CancelUpdates({}), UpdateDeviceToOffline("s1")}
=============================================================================
