\* The ports of connections: the bytes are swapped once too often.
CONSTANT Input <- MCInput
SPECIFICATION DecoderSpec
INVARIANT PortsAreReal
CHECK_DEADLOCK FALSE
