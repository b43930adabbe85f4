-------------------------- MODULE MCSMBusLongWrite --------------------------
(* One client that writes more than a chunk, against a reliable device.    *)
EXTENDS SMBusTransport

MCRequest == [op : {"write"}, addr : {0}, len : {1, 3}]
=============================================================================
