----------------------- MODULE MCDeviceConfiguration -----------------------
EXTENDS DeviceConfiguration

\* An item that is not known, one that is answered later, and one that is answered now.
MCItemLists == {<<"other", "subscription", "configuration">>}
=============================================================================
