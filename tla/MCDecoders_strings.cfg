\* The strings of a memory module: the last string of a structure is lost.
CONSTANT Input <- MCInput
SPECIFICATION DecoderSpec
INVARIANT StringsAreKept
CHECK_DEADLOCK FALSE
