CONSTANT Sources <- SourcesDef
SPECIFICATION ScanSpec
INVARIANTS KeywordsKnown MisreadByTail LinesRight StaysInside
