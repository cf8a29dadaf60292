SPECIFICATION CSpec
CONSTANTS
  input = input
  output = output
  Topic <- MCTopic
  Consumer = {c1}
  TopicOf <- MCTopicOf
  Output = output
  Capacity = 2
  ChannelSize = 1
  MaxSent = 4
  MaxTasks = 2
  NoOffset = NoOffset
INVARIANTS ProcessesInputTopic
CHECK_DEADLOCK FALSE
