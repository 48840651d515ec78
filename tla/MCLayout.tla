------------------------------ MODULE MCLayout ------------------------------
(* Layout with the numbers of the headers, on devices around the smallest  *)
(* that is accepted, and around the size where the SVT's last block is full*)
EXTENDS Layout

SmallDevices == {(320 + i) * 8192 + r : i \in {0, 1, 45, 46, 47, 48, 49, 50}, r \in {0, 8191}}
LargeDevices == {i * 8192 + 100 : i \in {1777, 34100, 34130}}
AllDevices == {0, 8192} \cup SmallDevices \cup LargeDevices
=============================================================================
