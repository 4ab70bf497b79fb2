------------------------- MODULE MCBluetoothDriver -------------------------
(* BluetoothDriver with scans around the threshold, any call throwing. *)
EXTENDS BluetoothDriver

MCScans == {<<>>, <<-51>>, <<-50>>, <<-51, -49>>, <<-50, -49>>}
MCAllFailures == {"scan", "pair", "stop"}
=============================================================================
