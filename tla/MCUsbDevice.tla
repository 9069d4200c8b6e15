---------------------------- MODULE MCUsbDevice ----------------------------
(* Devices of all kinds the kernel meets, and a ring so small that requests *)
(* go round it.                                                             *)
EXTENDS UsbDevice

Endpoint(number, dir_in) == EndpointDescriptor(number, dir_in, TRUE)
Bulk(number) == EndpointDescriptor(number, TRUE, FALSE)

DeviceConfigurations ==
  { <<InterfaceDescriptor("keyboard", 1), HIDDescriptor, Endpoint(1, TRUE)>>,
    <<InterfaceDescriptor("keyboard", 2), HIDDescriptor, Endpoint(1, TRUE), Endpoint(2, FALSE)>>,
    <<InterfaceDescriptor("other", 1), Bulk(1), InterfaceDescriptor("mouse", 1), HIDDescriptor, Endpoint(2, TRUE)>>,
    <<InterfaceDescriptor("mouse", 2), HIDDescriptor, Endpoint(1, TRUE), Endpoint(1, FALSE),
      InterfaceDescriptor("keyboard", 1), HIDDescriptor, Endpoint(3, TRUE)>>,
    <<InterfaceDescriptor("other", 1), Bulk(1)>> }

PoolSizes == [driver |-> 9, ring |-> 5, buffer |-> 8, alignment |-> 4,
              ringBoundary |-> 8, bufferBoundary |-> 16]
=============================================================================
